---- MODULE Spec2Model ----
(***************************************************************************)
(* SmartCache explorer: the trace-driven LRU cache simulator               *)
(* (cache_simulator.py), the trace generators                              *)
(* (trace_generator.py) and the Bayesian optimizer's evaluation loop and   *)
(* Pareto extraction (ai_optimizer.py).  Tiling cost model: the GEMM cost  *)
(* (cost_model.py, config.py) and the tiling frontier (sweep.py).          *)
(*                                                                         *)
(* Ten specifications share the module:                                    *)
(*   Spec        one CacheSimulator object: construction, access,          *)
(*               run_trace, reset;                                         *)
(*   SpecEval    evaluate_cache_config applied to a generated workload;    *)
(*   SpecOpt     runs of BayesianCacheOptimizer.optimize and               *)
(*               get_pareto_frontier;                                      *)
(*   SpecPareto  extract_pareto applied to a list of costs;                *)
(*   SpecGemm    compute_gemm_cost applied to a shape, a tiling and a      *)
(*               hardware configuration;                                   *)
(*   SpecSweep   sweep_gemm over the GEMMs of a layer, then                *)
(*               compare_uniform_vs_per_gemm;                              *)
(*   SpecCycles  _compute_total_cycles under the four buffer schemes;      *)
(*   SpecTrace   TraceGenerator objects sharing the random module;         *)
(*   SpecQuick   quicksort_trace, one call of its helper at a time         *)
(*               (SpecQuickLive: run to completion);                       *)
(*   SpecIncl    one trace run on two CacheSimulator objects that differ   *)
(*               in associativity only.                                    *)
(***************************************************************************)
EXTENDS Integers, Sequences, FiniteSets, TLC

VARIABLES
    pc,         \* position of the simulator's client
    args,       \* <<cache_size, block_size, associativity>> handed to __init__
    sim,        \* the CacheSimulator object's fields
    hist,       \* addresses accessed since construction or the last reset
    used,       \* addresses accessed since construction
    lastCall,   \* the last method call: its name, its trace, what it returned
    workload,   \* SpecEval: the trace handed to evaluate_cache_config
    miss_rate,  \* SpecEval: what evaluate_cache_config returned
    opt,        \* SpecOpt: the BayesianCacheOptimizer object's fields
    evals,      \* SpecOpt: the evaluations gp_minimize has made, in order
    pareto,     \* SpecOpt, SpecPareto: what the Pareto extraction returned
    costs,      \* SpecPareto: the list of costs handed to extract_pareto
    gemm,       \* SpecGemm: the calls of compute_gemm_cost and their results
    sweep,      \* SpecSweep: the layer, its SweepResults and the comparison
    cycles,     \* SpecCycles: the arguments and results of _compute_total_cycles
    gen,        \* SpecTrace: the random module's state and the traces generated
    qs,         \* SpecQuick: the pending partitions and the trace of quicksort_trace
    pair        \* SpecIncl: the two simulators, the trace and the results

simVars == <<pc, args, sim, hist, used, lastCall>>
evalVars == <<workload, miss_rate, opt, evals>>
optVars == <<opt, evals>>
gemmVars == <<pareto, costs, gemm>>
restVars == <<sweep, cycles, gen, qs, pair>>
coreVars == <<args, sim, hist, used, lastCall, workload, miss_rate, opt, evals,
              pareto, costs, gemm>>
vars == <<pc, args, sim, hist, used, lastCall, workload, miss_rate, opt, evals,
         pareto, costs, gemm, sweep, cycles, gen, qs, pair>>

(***************************************************************************)
(* Bounds of the model.                                                    *)
(***************************************************************************)
MaxCacheSize == 4     \* Spec: cache_size is drawn from -1..MaxCacheSize
MaxBlockSize == 2     \* Spec: block_size is drawn from -1..MaxBlockSize
MaxAssoc == 2         \* associativity is drawn from -1..MaxAssoc
MaxAddr == 2          \* Spec: addresses are drawn from 0..MaxAddr
MaxOps == 4           \* Spec: accesses per simulator object
MaxTraceLen == 2      \* length of a trace handed to run_trace
MaxEvalCacheSize == 8 \* SpecEval: cache_size is drawn from -1..MaxEvalCacheSize
MaxEvalBlockSize == 8 \* SpecEval: block_size is drawn from -1..MaxEvalBlockSize
MaxScan == 5          \* SpecEval: array_size of a sequential scan
MaxCalls == 2         \* SpecOpt: n_calls is drawn from 1..MaxCalls
MaxRate == 1          \* SpecOpt: the objective returns k/MaxRate, k in 0..MaxRate
MaxDram == 1          \* SpecPareto: dram_total of a cost is drawn from 0..MaxDram
MaxUtil == 1          \* SpecPareto: compute_utilisation is k/MaxUtil, k in 0..MaxUtil
MaxCosts == 3         \* SpecPareto: the list of costs has at most MaxCosts entries
MaxM == 1             \* SpecGemm: M of the shape is drawn from 1..MaxM
MaxN == 3             \* SpecGemm: N of the shape is drawn from 1..MaxN
MaxK == 2             \* SpecGemm: K of the shape is drawn from 1..MaxK
MaxTile == 2          \* SpecGemm: tile_m, tile_n, tile_k are drawn from 1..MaxTile
MaxSramSteps == 8     \* SpecGemm: sram_total_bytes is drawn from 0, 2, .., 2*MaxSramSteps

CacheSizes == (-1)..MaxCacheSize
BlockSizes == (-1)..MaxBlockSize
Assocs == (-1)..MaxAssoc
Addresses == 0..MaxAddr
EvalCacheSizes == (-1)..MaxEvalCacheSize
EvalBlockSizes == (-1)..MaxEvalBlockSize

RECURSIVE SeqsUpTo(_, _)
SeqsUpTo(S, n) ==
    IF n = 0 THEN {<<>>}
    ELSE LET shorter == SeqsUpTo(S, n - 1)
         IN shorter \cup {Append(t, a) : t \in {u \in shorter : Len(u) = n - 1}, a \in S}

Traces == SeqsUpTo(Addresses, MaxTraceLen)

(***************************************************************************)
(* Integer helpers: Python's <<, >>, & and int(math.log2(.)).              *)
(***************************************************************************)
Pow2(k) == IF k <= 0 THEN 1 ELSE 2 ^ k

RECURSIVE BitAnd(_, _)
BitAnd(a, b) ==
    IF a = 0 \/ b = 0 THEN 0
    ELSE 2 * BitAnd(a \div 2, b \div 2) + (IF a % 2 = 1 /\ b % 2 = 1 THEN 1 ELSE 0)

RECURSIVE log2_ceil(_)
log2_ceil(n) == IF n <= 1 THEN 0 ELSE 1 + log2_ceil((n + 1) \div 2)

\* int(math.log2(n)) for n >= 1: the floor of the logarithm.
RECURSIVE log2_int(_)
log2_int(n) == IF n <= 1 THEN 0 ELSE 1 + log2_int(n \div 2)

index_bits_ceil(num_sets) == log2_ceil(num_sets)

\* self.index_bits = int(math.log2(self.num_sets))
index_bits_of(num_sets) == log2_int(num_sets)

InSeq(x, s) == \E i \in 1..Len(s) : s[i] = x

SeqToSet(s) == {s[i] : i \in 1..Len(s)}

Without(s, x) == SelectSeq(s, LAMBDA y : y /= x)

(***************************************************************************)
(* CacheSimulator.__init__                                                 *)
(***************************************************************************)
\* The four assertions of the constructor.
ValidGeometry(cache_size, block_size, associativity) ==
    /\ cache_size > 0
    /\ block_size > 0 /\ BitAnd(block_size, block_size - 1) = 0
    /\ associativity > 0
    /\ cache_size >= block_size * associativity

Unbuilt ==
    [cache_size |-> 0, block_size |-> 0, associativity |-> 0,
     num_blocks |-> 0, num_sets |-> 0, offset_bits |-> 0, index_bits |-> 0,
     cache |-> [i \in {} |-> <<>>],
     hits |-> 0, misses |-> 0, total_accesses |-> 0]

EmptySets(num_sets) == [i \in 0..(num_sets - 1) |-> <<>>]

New(cache_size, block_size, associativity) ==
    LET num_blocks == cache_size \div block_size
        num_sets == num_blocks \div associativity
    IN [cache_size |-> cache_size, block_size |-> block_size,
        associativity |-> associativity,
        num_blocks |-> num_blocks, num_sets |-> num_sets,
        offset_bits |-> log2_int(block_size),
        index_bits |-> index_bits_of(num_sets),
        cache |-> EmptySets(num_sets),
        hits |-> 0, misses |-> 0, total_accesses |-> 0]

(***************************************************************************)
(* CacheSimulator._parse_address                                           *)
(***************************************************************************)
parse_address_wide_tag(s, address) ==
    [offset |-> address % Pow2(s.offset_bits),
     index |-> (address \div Pow2(s.offset_bits)) % Pow2(s.index_bits),
     tag |-> address \div Pow2(s.offset_bits + s.index_bits + 1)]

parse_address(s, address) ==
    [offset |-> address % Pow2(s.offset_bits),
     index |-> (address \div Pow2(s.offset_bits)) % Pow2(s.index_bits),
     tag |-> address \div Pow2(s.offset_bits + s.index_bits)]

(***************************************************************************)
(* CacheSimulator.access: a set is an OrderedDict, modelled as the         *)
(* sequence of its keys, first inserted (LRU) first.                       *)
(***************************************************************************)
move_to_end_stay(cache_set, tag) == cache_set

\* OrderedDict.move_to_end(tag)
move_to_end(cache_set, tag) == Append(Without(cache_set, tag), tag)

popitem_last(cache_set) == SubSeq(cache_set, 1, Len(cache_set) - 1)

\* OrderedDict.popitem(last=False): drops the first key
popitem(cache_set) == Tail(cache_set)

set_is_full_strict(cache_set, associativity) == Len(cache_set) > associativity

\* len(cache_set) >= self.associativity
set_is_full(cache_set, associativity) == Len(cache_set) >= associativity

count_hit_not(s) == s

\* self.hits += 1
count_hit(s) == [s EXCEPT !.hits = @ + 1]

\* Returns the simulator after the access, the value returned and the
\* exception raised, if any.
access(s, address) ==
    LET s1 == [s EXCEPT !.total_accesses = @ + 1]
        p == parse_address(s, address)
    IN IF p.index \notin DOMAIN s.cache
       THEN [sim |-> s1, hit |-> FALSE, raised |-> "IndexError"]
       ELSE LET cache_set == s.cache[p.index]
            IN IF InSeq(p.tag, cache_set)
               THEN [sim |-> [count_hit(s1) EXCEPT
                                 !.cache[p.index] = move_to_end(cache_set, p.tag)],
                     hit |-> TRUE, raised |-> "none"]
               ELSE LET kept == IF set_is_full(cache_set, s.associativity)
                                THEN popitem(cache_set)
                                ELSE cache_set
                    IN [sim |-> [s1 EXCEPT !.misses = @ + 1,
                                           !.cache[p.index] = Append(kept, p.tag)],
                        hit |-> FALSE, raised |-> "none"]

(***************************************************************************)
(* CacheSimulator.get_statistics, run_trace, reset.  A rate is the pair    *)
(* of the integers Python divides.                                         *)
(***************************************************************************)
Rate(n, d) == [num |-> n, den |-> d]

get_statistics(s) ==
    IF s.total_accesses = 0
    THEN [miss_rate |-> Rate(0, 1), hit_rate |-> Rate(0, 1),
          total_accesses |-> 0, hits |-> 0, misses |-> 0]
    ELSE [miss_rate |-> Rate(s.misses, s.total_accesses),
          hit_rate |-> Rate(s.hits, s.total_accesses),
          total_accesses |-> s.total_accesses, hits |-> s.hits,
          misses |-> s.misses]

NoStats == get_statistics(Unbuilt)

\* The loop of run_trace: stops at the first access that raises.
RECURSIVE run_accesses(_, _, _)
run_accesses(s, trace, results) ==
    IF trace = <<>>
    THEN [sim |-> s, results |-> results, raised |-> "none"]
    ELSE LET r == access(s, Head(trace))
         IN IF r.raised /= "none"
            THEN [sim |-> r.sim, results |-> results, raised |-> r.raised]
            ELSE run_accesses(r.sim, Tail(trace), Append(results, r.hit))

run_trace(s, trace) ==
    LET r == run_accesses(s, trace, <<>>)
    IN [sim |-> r.sim, results |-> r.results, raised |-> r.raised,
        stats |-> IF r.raised = "none" THEN get_statistics(r.sim) ELSE NoStats]

reset_keeps_cache(s) == [s EXCEPT !.hits = 0, !.misses = 0, !.total_accesses = 0]

reset(s) ==
    [s EXCEPT !.cache = EmptySets(s.num_sets),
              !.hits = 0, !.misses = 0, !.total_accesses = 0]

(***************************************************************************)
(* TraceGenerator.sequential_scan_trace and evaluate_cache_config.         *)
(***************************************************************************)
\* base_addr: int = 0x30000
SequentialBase == 196608

CeilDiv(a, b) == (a + b - 1) \div b

sequential_scan_trace_bytes(array_size, stride, base_addr) ==
    [k \in 1..CeilDiv(array_size, stride) |-> base_addr + (k - 1) * stride]

\* [base_addr + i * element_size for i in range(0, array_size, stride)]
sequential_scan_trace(array_size, stride, base_addr) ==
    LET element_size == 4
    IN [k \in 1..CeilDiv(array_size, stride) |->
            base_addr + ((k - 1) * stride) * element_size]

Workload(kind, array_size, trace) ==
    [kind |-> kind, array_size |-> array_size, trace |-> trace]

NoWorkload == Workload("none", 0, <<>>)

invalid_config_is_best == Rate(0, 1)

\* except (AssertionError, ValueError): return 1.0
invalid_config_rate == Rate(1, 1)

\* The value returned, the exception that escapes ("none" when one does
\* not) and the function's local simulator.
evaluate_cache_config(cache_size, block_size, associativity, trace) ==
    IF ~ValidGeometry(cache_size, block_size, associativity)
    THEN [value |-> invalid_config_rate, raised |-> "none", sim |-> Unbuilt]
    ELSE LET r == run_trace(New(cache_size, block_size, associativity), trace)
         IN IF r.raised = "none"
            THEN [value |-> r.stats.miss_rate, raised |-> "none", sim |-> r.sim]
            ELSE IF r.raised \in {"AssertionError", "ValueError"}
                 THEN [value |-> invalid_config_rate, raised |-> "none", sim |-> r.sim]
                 ELSE [value |-> Rate(0, 1), raised |-> r.raised, sim |-> r.sim]

(***************************************************************************)
(* BayesianCacheOptimizer.  A miss rate is a Rate; float('inf') is 1/0.    *)
(***************************************************************************)
RateLessOrEqual(r, q) == r.num * q.den <= q.num * r.den

\* miss_rate < self.best_miss_rate
RateLess(r, q) == r.num * q.den < q.num * r.den

Infinity == Rate(1, 0)

\* best_config = None
NoConfig ==
    [cache_size |-> 0, block_size |-> 0, associativity |-> 0, miss_rate |-> Infinity]

\* min_cache_size: int = 1024
DefaultMinCacheSize == 1024

NoOptimizer ==
    [max_cache_size |-> 0, min_cache_size |-> 0, n_calls |-> 0, verbose |-> FALSE,
     history |-> <<>>, best_config |-> NoConfig, best_miss_rate |-> Infinity]

\* BayesianCacheOptimizer.__init__
NewOptimizer(max_cache_size, min_cache_size, n_calls, verbose) ==
    [max_cache_size |-> max_cache_size, min_cache_size |-> min_cache_size,
     n_calls |-> n_calls, verbose |-> verbose,
     history |-> <<>>, best_config |-> NoConfig, best_miss_rate |-> Infinity]

\* self.space: Integer(10, 16), Integer(4, 9), Integer(0, 4)
SearchSpace == (10..16) \X (4..9) \X (0..4)

decode_params_linear(max_cache_size, cache_size_exp, block_size_exp, assoc_exp) ==
    LET cache_size == IF Pow2(cache_size_exp) > max_cache_size
                      THEN max_cache_size
                      ELSE Pow2(cache_size_exp)
        block_size == Pow2(block_size_exp)
        num_blocks == cache_size \div block_size
        associativity == IF 2 * assoc_exp > num_blocks
                         THEN num_blocks
                         ELSE 2 * assoc_exp
    IN <<cache_size, block_size, associativity>>

\* BayesianCacheOptimizer._decode_params
decode_params(max_cache_size, cache_size_exp, block_size_exp, assoc_exp) ==
    LET cache_size == IF Pow2(cache_size_exp) > max_cache_size
                      THEN max_cache_size
                      ELSE Pow2(cache_size_exp)
        block_size == Pow2(block_size_exp)
        num_blocks == cache_size \div block_size
        associativity == IF Pow2(assoc_exp) > num_blocks
                         THEN num_blocks
                         ELSE Pow2(assoc_exp)
    IN <<cache_size, block_size, associativity>>

validate_config_any_multiple(o, cache_size, block_size, associativity) ==
    /\ ~(cache_size > o.max_cache_size \/ cache_size < o.min_cache_size)
    /\ ~(block_size <= 0)
    /\ ~(associativity <= 0 \/ associativity > cache_size \div block_size)
    /\ ~((cache_size \div block_size) \div associativity <= 0)

\* BayesianCacheOptimizer._validate_config
validate_config(o, cache_size, block_size, associativity) ==
    /\ ~(cache_size > o.max_cache_size \/ cache_size < o.min_cache_size)
    /\ ~(block_size <= 0 \/ cache_size % block_size /= 0)
    /\ ~(associativity <= 0 \/ associativity > cache_size \div block_size)
    /\ ~((cache_size \div block_size) \div associativity <= 0)

Config(c, rate) ==
    [cache_size |-> c[1], block_size |-> c[2], associativity |-> c[3],
     miss_rate |-> rate]

history_insert_first(history, config) == <<config>> \o history

\* self.history.append(config)
history_append(history, config) == Append(history, config)

error_penalty_best == Rate(0, 1)

\* except Exception: return 1.0
error_penalty == Rate(1, 1)

\* What the objective function does when it is called.
Returned(rate) == [raises |-> FALSE, value |-> rate]
Raised == [raises |-> TRUE, value |-> Rate(1, 1)]

\* One call of objective_wrapper at the point x, the objective behaving as
\* `result`: the optimizer after the call, the value handed back to
\* gp_minimize and whether the objective was called.
objective_wrapper(o, x, result) ==
    LET c == decode_params(o.max_cache_size, x[1], x[2], x[3])
    IN IF ~validate_config(o, c[1], c[2], c[3])
       THEN [opt |-> o, y |-> Rate(1, 1), call |-> "skipped"]
       ELSE IF result.raises
            THEN [opt |-> o, y |-> error_penalty, call |-> "raised"]
            ELSE LET config == Config(c, result.value)
                     o1 == [o EXCEPT !.history = history_append(@, config)]
                     o2 == IF RateLess(result.value, o1.best_miss_rate)
                           THEN [o1 EXCEPT !.best_miss_rate = result.value,
                                           !.best_config = config]
                           ELSE o1
                 IN [opt |-> o2, y |-> result.value, call |-> "returned"]

unsorted(s, key) == s

\* sorted(list, key=lambda x: x[key]): a stable sort, ascending in the key.
\* The element at place n is the one with n - 1 elements before it: those of
\* a smaller key and those of the same key that come earlier in the list.
sorted(s, key) ==
    LET before(i) == {j \in 1..Len(s) :
                        \/ s[j][key] < s[i][key]
                        \/ s[j][key] = s[i][key] /\ j < i}
    IN [n \in 1..Len(s) |-> s[CHOOSE i \in 1..Len(s) : Cardinality(before(i)) = n - 1]]

\* The loop of get_pareto_frontier over sorted_history: the points kept
\* and min_miss_rate_so_far.
RECURSIVE pareto_scan(_)
pareto_scan(sorted_history) ==
    IF sorted_history = <<>>
    THEN [pareto_points |-> <<>>, min_miss_rate_so_far |-> Infinity]
    ELSE LET r == pareto_scan(SubSeq(sorted_history, 1, Len(sorted_history) - 1))
             config == sorted_history[Len(sorted_history)]
         IN IF RateLess(config.miss_rate, r.min_miss_rate_so_far)
            THEN [pareto_points |-> Append(r.pareto_points, config),
                  min_miss_rate_so_far |-> config.miss_rate]
            ELSE r

\* BayesianCacheOptimizer.get_pareto_frontier
get_pareto_frontier(o) ==
    IF o.history = <<>> THEN <<>>
    ELSE pareto_scan(sorted(o.history, "cache_size")).pareto_points

(***************************************************************************)
(* The tiling cost model: compute_gemm_cost and extract_pareto.  Cycle     *)
(* counts are exact fractions of a cycle, kept as integers in units of     *)
(* 1/CycleUnits cycle; the source computes them in floating point.         *)
(***************************************************************************)
min2(a, b) == IF a <= b THEN a ELSE b
max2_smaller(a, b) == IF a >= b THEN b ELSE a

max2_sum(a, b) == a + b

max2(a, b) == IF a >= b THEN a ELSE b

\* HWConfig defaults.
dram_peak_bw_gbps == 50
dram_page_hit_latency_ns == 17
dram_page_miss_latency_ns == 52
dram_burst_efficiency == Rate(9, 10)
dram_page_hit_rate == Rate(7, 10)
mac_freq_mhz == 500
default_mac_array == 32
act_bytes == Rate(1, 1)
weight_bytes == Rate(1, 2)
acc_bytes == 4
output_bytes == Rate(1, 1)

\* 1000.0 / mac_freq_mhz
cycle_time_ns == 1000 \div mac_freq_mhz

\* avg_latency_ns as a fraction.
avg_latency_ns ==
    Rate(dram_page_hit_rate.num * dram_page_hit_latency_ns
           + (dram_page_hit_rate.den - dram_page_hit_rate.num) * dram_page_miss_latency_ns,
         dram_page_hit_rate.den)

\* sustained_bw = dram_bw_bytes_per_ns * dram_burst_efficiency, as a fraction.
sustained_bw ==
    Rate(dram_peak_bw_gbps * dram_burst_efficiency.num, dram_burst_efficiency.den)

\* One cycle is CycleUnits units: the latency of a transaction is 275/20
\* cycle and the transfer time of a byte 1/90 cycle, both whole in units.
CycleUnits == 180

\* HWConfig.dram_transfer_cycles, in units.
dram_transfer_cycles(num_bytes, num_transactions) ==
    IF num_bytes <= 0 THEN 0
    ELSE (num_transactions * avg_latency_ns.num * CycleUnits)
             \div (avg_latency_ns.den * cycle_time_ns)
         + (num_bytes * sustained_bw.den * CycleUnits)
             \div (sustained_bw.num * cycle_time_ns)

BufferSchemes == {"single", "double_b", "double_a", "double_ab"}

GEMMShape(M, N, K) == [M |-> M, N |-> N, K |-> K]

TilingConfig(tile_m, tile_n, tile_k, buffer_scheme) ==
    [tile_m |-> tile_m, tile_n |-> tile_n, tile_k |-> tile_k,
     buffer_scheme |-> buffer_scheme]

HWConfig(sram_total_bytes, mac_array_m, mac_array_n) ==
    [sram_total_bytes |-> sram_total_bytes,
     mac_array_m |-> mac_array_m, mac_array_n |-> mac_array_n]

macs_per_cycle(hw) == hw.mac_array_m * hw.mac_array_n

\* int(math.ceil(n * width)) for an element width given as a fraction.
ceil_bytes(n, width) == CeilDiv(n * width.num, width.den)

\* Every scheme charged as SINGLE, DOUBLE_B with one more B tile per k-iteration.
compute_total_cycles_extra_b(scheme, n_m, n_jg, n_k, j_c_eff, n_n, a_tile_bytes, b_tile_bytes, c_tile_bytes, compute_per_tile, hw) ==
    n_m * n_jg * n_k
      * (dram_transfer_cycles(a_tile_bytes, 1)
           + (IF scheme = "double_b" THEN j_c_eff + 1 ELSE j_c_eff)
               * (dram_transfer_cycles(b_tile_bytes, 1) + compute_per_tile * CycleUnits))

\* _compute_total_cycles, in units.
compute_total_cycles(scheme, n_m, n_jg, n_k, j_c_eff, n_n, a_tile_bytes, b_tile_bytes, c_tile_bytes, compute_per_tile, hw) ==
    LET t_load_a == dram_transfer_cycles(a_tile_bytes, 1)
        t_load_b == dram_transfer_cycles(b_tile_bytes, 1)
        t_compute == compute_per_tile * CycleUnits
        c_out_bytes_per_tile == ceil_bytes(c_tile_bytes \div acc_bytes, output_bytes)
        t_store_group == dram_transfer_cycles(c_out_bytes_per_tile * j_c_eff, j_c_eff)
        t_k_iter ==
            CASE scheme = "single" ->
                   t_load_a + j_c_eff * (t_load_b + t_compute)
              [] scheme = "double_b" ->
                   IF j_c_eff <= 1
                   THEN t_load_a + t_load_b + t_compute
                   ELSE t_load_a + t_load_b
                        + (j_c_eff - 1) * max2(t_load_b, t_compute) + t_compute
              [] scheme = "double_a" ->
                   max2(t_load_a, j_c_eff * (t_load_b + t_compute))
              [] scheme = "double_ab" ->
                   max2(t_load_a,
                        IF j_c_eff <= 1
                        THEN max2(t_load_b, t_compute)
                        ELSE t_load_b + (j_c_eff - 1) * max2(t_load_b, t_compute)
                             + t_compute)
        t_per_group == n_k * t_k_iter + t_store_group
        total == n_m * n_jg * t_per_group
    IN IF scheme \in {"double_a", "double_ab"} THEN total + t_load_a ELSE total

\* compute_gemm_cost returns None.
None == [is_none |-> TRUE]

j_c_rounded_up(sram_for_c, c_tile_bytes) == max2(1, CeilDiv(sram_for_c, c_tile_bytes))

\* j_c = max(1, sram_for_c // c_tile_bytes)
j_c_of(sram_for_c, c_tile_bytes) == max2(1, sram_for_c \div c_tile_bytes)

\* compute_gemm_cost; the cycle fields are in units.
compute_gemm_cost(shape, tiling, hw) ==
    LET tm == min2(tiling.tile_m, shape.M)
        tn == min2(tiling.tile_n, shape.N)
        tk == min2(tiling.tile_k, shape.K)
        scheme == tiling.buffer_scheme
        a_tile_bytes == ceil_bytes(tm * tk, act_bytes)
        b_tile_bytes == ceil_bytes(tk * tn, weight_bytes)
        c_tile_bytes == tm * tn * acc_bytes
        a_buf_mult == IF scheme \in {"double_a", "double_ab"} THEN 2 ELSE 1
        b_buf_mult == IF scheme \in {"double_b", "double_ab"} THEN 2 ELSE 1
        sram_a == a_tile_bytes * a_buf_mult
        sram_b == b_tile_bytes * b_buf_mult
        min_sram == sram_a + sram_b + c_tile_bytes
        sram_for_c == hw.sram_total_bytes - sram_a - sram_b
        j_c == j_c_of(sram_for_c, c_tile_bytes)
        sram_c == j_c * c_tile_bytes
        n_m == CeilDiv(shape.M, tm)
        n_n == CeilDiv(shape.N, tn)
        n_k == CeilDiv(shape.K, tk)
        n_jg == CeilDiv(n_n, j_c)
        j_c_eff == min2(j_c, n_n)
        n_a_loads == n_m * n_jg * n_k
        dram_read_a == n_a_loads * a_tile_bytes
        n_b_loads == n_m * n_n * n_k
        dram_read_b == n_b_loads * b_tile_bytes
        dram_write_c == n_m * n_n * ceil_bytes(tm * tn, output_bytes)
        dram_total == dram_read_a + dram_read_b + dram_write_c
        sub_tiles_m == CeilDiv(tm, hw.mac_array_m)
        sub_tiles_n == CeilDiv(tn, hw.mac_array_n)
        compute_per_tile == sub_tiles_m * sub_tiles_n * tk
        total_tile_ops == n_m * n_n * n_k
        total_macs == shape.M * shape.N * shape.K
        array_macs_per_tile == sub_tiles_m * sub_tiles_n * macs_per_cycle(hw) * tk
        total_cycles ==
            compute_total_cycles(scheme, n_m, n_jg, n_k, j_c_eff, n_n, a_tile_bytes,
                                 b_tile_bytes, c_tile_bytes, compute_per_tile, hw)
    IN IF min_sram > hw.sram_total_bytes
       THEN None
       ELSE [is_none |-> FALSE,
             n_tiles_m |-> n_m, n_tiles_n |-> n_n, n_tiles_k |-> n_k,
             n_j_groups |-> n_jg, j_c |-> j_c_eff,
             sram_a |-> sram_a, sram_b |-> sram_b, sram_c |-> sram_c,
             sram_total |-> sram_a + sram_b + sram_c,
             dram_read_a |-> dram_read_a, dram_read_b |-> dram_read_b,
             dram_write_c |-> dram_write_c, dram_total |-> dram_total,
             compute_cycles |-> total_tile_ops * compute_per_tile * CycleUnits,
             ideal_compute_cycles |-> Rate(total_macs * CycleUnits, macs_per_cycle(hw)),
             memory_cycles |-> dram_transfer_cycles(dram_read_a, n_a_loads)
                               + dram_transfer_cycles(dram_read_b, n_b_loads)
                               + dram_transfer_cycles(dram_write_c, n_m * n_n),
             total_cycles |-> total_cycles,
             mac_array_efficiency |->
                 IF array_macs_per_tile > 0
                 THEN Rate(tm * tn * tk, array_macs_per_tile) ELSE Rate(0, 1),
             compute_utilisation |->
                 IF total_cycles > 0
                 THEN Rate(total_macs * CycleUnits, macs_per_cycle(hw) * total_cycles)
                 ELSE Rate(0, 1),
             arithmetic_intensity |->
                 IF dram_total > 0 THEN Rate(total_macs, dram_total) ELSE Infinity]

\* The calls of compute_gemm_cost: the arguments, what the call returned,
\* and what a second call with sram_total_bytes = more_sram returned.
GemmCalls(shape, tiling, hw, cost, more_sram, cost_more) ==
    [shape |-> shape, tiling |-> tiling, hw |-> hw, cost |-> cost,
     more_sram |-> more_sram, cost_more |-> cost_more]

\* compute_gemm_cost has not been called.
NoGemm ==
    GemmCalls(GEMMShape(0, 0, 0), TilingConfig(0, 0, 0, "single"), HWConfig(0, 0, 0),
              None, 0, None)

\* c.compute_utilisation > best_util
RateGreater(r, q) == r.num * q.den > q.num * r.den

\* The test of the loop of extract_pareto at sorted_costs[i]: best_util is
\* then -1.0 or the compute_utilisation of the last cost kept, the largest
\* of the costs before i.
exceeds_best_util(sorted_costs, i) ==
    /\ RateGreater(sorted_costs[i].compute_utilisation, Rate(-1, 1))
    /\ \A j \in 1..(i - 1) : RateGreater(sorted_costs[i].compute_utilisation,
                                         sorted_costs[j].compute_utilisation)

\* The loop of extract_pareto over sorted_costs: the costs kept, in order.
extract_scan(sorted_costs) ==
    LET kept == SelectSeq([i \in 1..Len(sorted_costs) |-> i],
                          LAMBDA i : exceeds_best_util(sorted_costs, i))
    IN [n \in 1..Len(kept) |-> sorted_costs[kept[n]]]

\* extract_pareto
extract_pareto(cs) ==
    IF cs = <<>> THEN <<>> ELSE extract_scan(sorted(cs, "dram_total"))

(***************************************************************************)
(* sweep.py: the tiling candidates, the sweep of one GEMM and the          *)
(* comparison of uniform with per-GEMM tiling.                             *)
(***************************************************************************)
default_sram_total_bytes == 2097152

\* DEFAULT_HW = HWConfig()
DEFAULT_HW == HWConfig(default_sram_total_bytes, default_mac_array, default_mac_array)

BUFFER_SCHEMES == <<"single", "double_b", "double_a", "double_ab">>

\* itertools.product(tm_list, tn_list, tk_list, buf_list), in its order
product(tm_list, tn_list, tk_list, buf_list) ==
    [i \in 1..(Len(tm_list) * Len(tn_list) * Len(tk_list) * Len(buf_list)) |->
        LET b == (i - 1) % Len(buf_list)
            k == ((i - 1) \div Len(buf_list)) % Len(tk_list)
            n == ((i - 1) \div (Len(buf_list) * Len(tk_list))) % Len(tn_list)
            m == (i - 1) \div (Len(buf_list) * Len(tk_list) * Len(tn_list))
        IN <<tm_list[m + 1], tn_list[n + 1], tk_list[k + 1], buf_list[b + 1]>>]

\* The footprint estimate of generate_tiling_candidates.
rough_sram(tm_eff, tn_eff, tk_eff, scheme, hw) ==
    ceil_bytes(tm_eff * tk_eff, act_bytes)
        * (IF scheme \in {"double_a", "double_ab"} THEN 2 ELSE 1)
      + ceil_bytes(tk_eff * tn_eff, weight_bytes)
        * (IF scheme \in {"double_b", "double_ab"} THEN 2 ELSE 1)
      + tm_eff * tn_eff * acc_bytes

\* The candidates the first loop of generate_tiling_candidates appends: the
\* points clamped to the shape, without those whose estimate exceeds SRAM.
clamped_candidates(points, shape, hw) ==
    SelectSeq([i \in 1..Len(points) |->
                  TilingConfig(IF points[i][1] > shape.M THEN shape.M ELSE points[i][1],
                               IF points[i][2] > shape.N THEN shape.N ELSE points[i][2],
                               IF points[i][3] > shape.K THEN shape.K ELSE points[i][3],
                               points[i][4])],
              LAMBDA c : rough_sram(c.tile_m, c.tile_n, c.tile_k, c.buffer_scheme, hw)
                           <= hw.sram_total_bytes)

\* The second loop: the first occurrence of every candidate, in order.
deduped(candidates) ==
    LET first == {i \in 1..Len(candidates) :
                     \A j \in 1..(i - 1) : candidates[j] /= candidates[i]}
    IN [n \in 1..Cardinality(first) |->
           candidates[CHOOSE i \in first : Cardinality({j \in first : j <= i}) = n]]

generate_tiling_candidates(shape, hw, tile_m_list, tile_n_list, tile_k_list) ==
    deduped(clamped_candidates(product(tile_m_list, tile_n_list, tile_k_list,
                                       BUFFER_SCHEMES), shape, hw))

baseline_tiling(shape, hw) ==
    TilingConfig(min2(shape.M, hw.mac_array_m), hw.mac_array_n, hw.mac_array_n, "single")

\* A GEMMCost: the fields compute_gemm_cost computes with its shape and tiling.
with_shape_and_tiling(cost, shape, tiling) ==
    IF cost.is_none THEN None ELSE cost @@ [shape |-> shape, tiling |-> tiling]

GEMMCost(shape, tiling, hw) ==
    with_shape_and_tiling(compute_gemm_cost(shape, tiling, hw), shape, tiling)

\* max(..., key=...) and min(..., key=...) return the first extreme element.
max_utilisation_first(cs) == cs[1]

\* max(self.pareto_costs, key=lambda c: c.compute_utilisation): the first
\* cost of the largest utilisation.
max_utilisation(cs) ==
    cs[CHOOSE i \in 1..Len(cs) :
         /\ \A j \in 1..Len(cs) :
              ~RateGreater(cs[j].compute_utilisation, cs[i].compute_utilisation)
         /\ \A j \in 1..(i - 1) :
              RateGreater(cs[i].compute_utilisation, cs[j].compute_utilisation)]

\* min(self.pareto_costs, key=lambda c: c.dram_total): the first cost of the
\* smallest dram_total.
min_dram(cs) ==
    cs[CHOOSE i \in 1..Len(cs) :
         /\ \A j \in 1..Len(cs) : cs[i].dram_total <= cs[j].dram_total
         /\ \A j \in 1..(i - 1) : cs[i].dram_total < cs[j].dram_total]

ValueError == [is_none |-> TRUE, raised |-> "ValueError"]

\* SweepResult.best_utilisation
best_utilisation(r) ==
    IF r.pareto_costs = <<>> THEN ValueError ELSE max_utilisation(r.pareto_costs)

\* SweepResult.best_dram
best_dram(r) ==
    IF r.pareto_costs = <<>> THEN ValueError ELSE min_dram(r.pareto_costs)

SweepResult(shape, all_costs, pareto_costs, baseline_cost) ==
    [shape |-> shape, all_costs |-> all_costs, pareto_costs |-> pareto_costs,
     baseline_cost |-> baseline_cost]

\* The loop of sweep_gemm: the costs of the candidates that are not None.
valid_costs(shape, candidates, hw) ==
    SelectSeq([i \in 1..Len(candidates) |-> GEMMCost(shape, candidates[i], hw)],
              LAMBDA c : ~c.is_none)

swept(shape, all_costs, bl_cost) ==
    SweepResult(shape, all_costs, extract_pareto(all_costs), bl_cost)

\* sweep_gemm; baseline_cost is None when the assertion fails.
sweep_gemm(shape, hw, tile_m_list, tile_n_list, tile_k_list) ==
    swept(shape,
          valid_costs(shape,
                      generate_tiling_candidates(shape, hw, tile_m_list, tile_n_list,
                                                 tile_k_list),
                      hw),
          GEMMCost(shape, baseline_tiling(shape, hw), hw))

RECURSIVE sum(_)
sum(s) == IF s = <<>> THEN 0 ELSE sum(SubSeq(s, 1, Len(s) - 1)) + s[Len(s)]

\* The sum of ideal_compute_cycles of costs of one hardware configuration
\* (one denominator), and that sum divided by cycles.
UtilOf(cs, cycles_sum) ==
    IF cycles_sum > 0
    THEN Rate(sum([i \in 1..Len(cs) |-> cs[i].ideal_compute_cycles.num]),
              cs[1].ideal_compute_cycles.den * cycles_sum)
    ELSE Rate(0, 1)

\* all_tilings.values(): the tilings of all_costs of every result, each at
\* the place of its first occurrence.
tilings_of(all_costs) == [i \in 1..Len(all_costs) |-> all_costs[i].tiling]

RECURSIVE all_tilings(_)
all_tilings(results) ==
    IF results = <<>> THEN <<>>
    ELSE deduped(all_tilings(SubSeq(results, 1, Len(results) - 1))
                   \o tilings_of(results[Len(results)].all_costs))

\* One iteration of the loop over all_tilings: layer_costs is the tiling's
\* cost for every GEMM, valid unless one of them is None, total the sum of
\* total_cycles.
uniform_attempt(layer_costs) ==
    [valid |-> \A i \in 1..Len(layer_costs) : ~layer_costs[i].is_none,
     cycles |-> IF \A i \in 1..Len(layer_costs) : ~layer_costs[i].is_none
                THEN sum([i \in 1..Len(layer_costs) |-> layer_costs[i].total_cycles])
                ELSE -1,
     result |-> layer_costs]

\* best_uniform_cycles and best_uniform_result after the loop: the first of
\* the valid attempts with the smallest total (total < best_uniform_cycles
\* replaces), -1 (for inf) and no result if there is none.
first_least_cycles(attempts) ==
    IF attempts = <<>> THEN [cycles |-> -1, result |-> <<>>]
    ELSE LET t == CHOOSE t \in 1..Len(attempts) :
                    /\ \A u \in 1..Len(attempts) : attempts[t].cycles <= attempts[u].cycles
                    /\ \A u \in 1..(t - 1) : attempts[t].cycles < attempts[u].cycles
         IN [cycles |-> attempts[t].cycles, result |-> attempts[t].result]

\* The loop over all_tilings, every cost computed on DEFAULT_HW.
best_uniform(tilings, results) ==
    first_least_cycles(
        SelectSeq([t \in 1..Len(tilings) |->
                      uniform_attempt([i \in 1..Len(results) |->
                          GEMMCost(results[i].shape, tilings[t], DEFAULT_HW)])],
                  LAMBDA attempt : attempt.valid))

\* The sums compare_uniform_vs_per_gemm returns, from the per-GEMM best costs
\* and best_uniform_result (empty for None).
UniformVsPerGemmComparison(per_gemm, uniform) ==
    [uniform_dram |-> sum([i \in 1..Len(uniform) |-> uniform[i].dram_total]),
     uniform_cycles |-> sum([i \in 1..Len(uniform) |-> uniform[i].total_cycles]),
     uniform_util |->
         IF uniform = <<>> THEN Rate(0, 1)
         ELSE UtilOf(uniform, sum([i \in 1..Len(uniform) |-> uniform[i].total_cycles])),
     per_gemm_dram |-> sum([i \in 1..Len(per_gemm) |-> per_gemm[i].dram_total]),
     per_gemm_cycles |-> sum([i \in 1..Len(per_gemm) |-> per_gemm[i].total_cycles]),
     per_gemm_util |->
         IF per_gemm = <<>> THEN Rate(0, 1)
         ELSE UtilOf(per_gemm, sum([i \in 1..Len(per_gemm) |-> per_gemm[i].total_cycles]))]

\* compare_uniform_vs_per_gemm, for results with a best_utilisation.
compare_uniform_vs_per_gemm(results) ==
    UniformVsPerGemmComparison([i \in 1..Len(results) |-> best_utilisation(results[i])],
                               best_uniform(all_tilings(results), results).result)

(***************************************************************************)
(* trace_generator.py: the generators that draw from the random module and *)
(* matrix_multiplication_trace.  The module's generator (the standard      *)
(* library's, shared by every TraceGenerator) is a linear congruential     *)
(* generator here: a state that seed sets and every draw advances.         *)
(***************************************************************************)
random_modulus == 8
random_multiplier == 5
random_increment == 3

\* random.seed(seed)
random_seed(seed) == seed % random_modulus

\* The state after one draw.
random_next(state) == (random_multiplier * state + random_increment) % random_modulus

\* random.randint(a, b) drawn in state: the value and the state after.
random_randint(state, a, b) ==
    [value |-> a + (random_next(state) * (b - a + 1)) \div random_modulus,
     state |-> random_next(state)]

element_size == 4
MatmulBase == 65536
RandomBase == 262144

\* random_access_trace from the module state: the trace and the state after.
RECURSIVE random_access_trace(_, _, _, _)
random_access_trace(state, array_size, num_accesses, base_addr) ==
    IF num_accesses = 0 THEN [trace |-> <<>>, state |-> state]
    ELSE LET before == random_access_trace(state, array_size, num_accesses - 1, base_addr)
             draw == random_randint(before.state, 0, array_size - 1)
         IN [trace |-> Append(before.trace, base_addr + draw.value * element_size),
             state |-> draw.state]

RECURSIVE Flatten(_)
Flatten(ss) == IF ss = <<>> THEN <<>> ELSE Flatten(SubSeq(ss, 1, Len(ss) - 1)) \o ss[Len(ss)]

\* matrix_multiplication_trace: for i, for j: C[i][j], then for k: A[i][k],
\* B[k][j], C[i][j].
matrix_multiplication_trace(N, base_addr) ==
    LET A_base == base_addr
        B_base == A_base + N * N * element_size
        C_base == B_base + N * N * element_size
        c_addr(i, j) == C_base + (i * N + j) * element_size
        a_addr(i, k) == A_base + (i * N + k) * element_size
        b_addr(k, j) == B_base + (k * N + j) * element_size
        inner(i, j) == Flatten([k1 \in 1..N |->
                          <<a_addr(i, k1 - 1), b_addr(k1 - 1, j), c_addr(i, j)>>])
        row(i) == Flatten([j1 \in 1..N |-> <<c_addr(i, j1 - 1)>> \o inner(i, j1 - 1)])
    IN Flatten([i1 \in 1..N |-> row(i1 - 1)])

QuickBase == 131072

\* The address of arr[i] in quicksort_trace.
quick_addr(base_addr, i) == base_addr + i * element_size

\* The scan of one partition: every index of low..high once, and a second
\* time (the write back) where random.random() < 0.3, the indices in swapped.
RECURSIVE scan(_, _, _, _)
scan(low, high, swapped, base_addr) ==
    IF low > high THEN <<>>
    ELSE (IF low \in swapped THEN <<quick_addr(base_addr, low), quick_addr(base_addr, low)>>
                             ELSE <<quick_addr(base_addr, low)>>)
         \o scan(low + 1, high, swapped, base_addr)

\* What one call of quicksort_trace_helper appends before it recurses.
partition(low, high, pivot_idx, swapped, base_addr) ==
    <<quick_addr(base_addr, pivot_idx)>> \o scan(low, high, swapped, base_addr)

pivot_position_last(low, high) == high

\* pivot_pos = low + (high - low) // 2
pivot_position(low, high) == low + (high - low) \div 2

(***************************************************************************)
(* The variables of the specifications that are not running.               *)
(***************************************************************************)
NoSweep == [at |-> "none"]
NoCycles == [at |-> "none"]
NoGen == [at |-> "none"]
NoQuick == [at |-> "none"]
NoPair == [at |-> "none"]

CoreIdle ==
    /\ args = <<0, 0, 0>>
    /\ sim = Unbuilt
    /\ hist = <<>>
    /\ used = 0
    /\ lastCall = [op |-> "none", trace |-> <<>>, results |-> <<>>, stats |-> NoStats]
    /\ workload = NoWorkload
    /\ miss_rate = Rate(0, 1)
    /\ opt = NoOptimizer
    /\ evals = <<>>
    /\ pareto = <<>>
    /\ costs = <<>>
    /\ gemm = NoGemm

RestIdle ==
    /\ sweep = NoSweep
    /\ cycles = NoCycles
    /\ gen = NoGen
    /\ qs = NoQuick
    /\ pair = NoPair

(***************************************************************************)
(* Spec: the life of one CacheSimulator object.                            *)
(***************************************************************************)
Call(op, trace, results, stats) ==
    [op |-> op, trace |-> trace, results |-> results, stats |-> stats]

Init ==
    /\ pc = "new"
    /\ RestIdle
    /\ args \in CacheSizes \X BlockSizes \X Assocs
    /\ sim = Unbuilt
    /\ hist = <<>>
    /\ used = 0
    /\ lastCall = Call("none", <<>>, <<>>, NoStats)
    /\ workload = NoWorkload
    /\ miss_rate = Rate(0, 1)
    /\ opt = NoOptimizer
    /\ evals = <<>>
    /\ pareto = <<>>
    /\ costs = <<>>
    /\ gemm = NoGemm

Construct ==
    /\ pc = "new"
    /\ IF ValidGeometry(args[1], args[2], args[3])
       THEN /\ pc' = "ready"
            /\ sim' = New(args[1], args[2], args[3])
       ELSE /\ pc' = "AssertionError"
            /\ sim' = sim
    /\ lastCall' = Call("__init__", <<>>, <<>>, NoStats)
    /\ UNCHANGED <<args, hist, used, workload, miss_rate, opt, evals,
                 pareto, costs, gemm, restVars>>

Access ==
    /\ pc = "ready"
    /\ used < MaxOps
    /\ \E address \in Addresses :
         LET r == access(sim, address)
         IN /\ sim' = r.sim
            /\ pc' = IF r.raised = "none" THEN "ready" ELSE r.raised
            /\ hist' = Append(hist, address)
            /\ lastCall' = Call("access", <<address>>, <<r.hit>>, NoStats)
    /\ used' = used + 1
    /\ UNCHANGED <<args, workload, miss_rate, opt, evals,
                 pareto, costs, gemm, restVars>>

RunTrace ==
    /\ pc = "ready"
    /\ \E trace \in Traces :
         /\ used + Len(trace) <= MaxOps
         /\ LET r == run_trace(sim, trace)
            IN /\ sim' = r.sim
               /\ pc' = IF r.raised = "none" THEN "ready" ELSE r.raised
               /\ hist' = hist \o trace
               /\ used' = used + Len(trace)
               /\ lastCall' = Call("run_trace", trace, r.results, r.stats)
    /\ UNCHANGED <<args, workload, miss_rate, opt, evals,
                 pareto, costs, gemm, restVars>>

Reset ==
    /\ pc = "ready"
    /\ sim' = reset(sim)
    /\ hist' = <<>>
    /\ lastCall' = Call("reset", <<>>, <<>>, NoStats)
    /\ UNCHANGED <<pc, args, used, workload, miss_rate, opt, evals,
                 pareto, costs, gemm, restVars>>

Next == Construct \/ Access \/ RunTrace \/ Reset

Spec == Init /\ [][Next]_vars

(***************************************************************************)
(* Properties of the simulator object (Spec).                              *)
(***************************************************************************)
Max(S) == CHOOSE x \in S : \A y \in S : y <= x

\* The position in h of the last access to (index, tag); 0 when there is none.
LastAccess(s, h, index, tag) ==
    Max({0} \cup {i \in 1..Len(h) : /\ parse_address(s, h[i]).index = index
                                    /\ parse_address(s, h[i]).tag = tag})

\* The tags the accesses of h sent to set index.
TagsSeen(s, h, index) ==
    {parse_address(s, h[i]).tag :
        i \in {j \in 1..Len(h) : parse_address(s, h[j]).index = index}}

\* The lines (address >> offset_bits) h touches.
Lines(s, h) == {h[i] \div Pow2(s.offset_bits) : i \in 1..Len(h)}

NoDuplicates(q) == \A i, j \in 1..Len(q) : i /= j => q[i] /= q[j]

RecencyOrdered ==
    pc = "ready" =>
        \A index \in DOMAIN sim.cache :
            LET cache_set == sim.cache[index]
            IN /\ \A i \in 1..Len(cache_set) :
                      LastAccess(sim, hist, index, cache_set[i]) > 0
               /\ \A i, j \in 1..Len(cache_set) :
                      i < j => LastAccess(sim, hist, index, cache_set[i])
                                 < LastAccess(sim, hist, index, cache_set[j])

\* One access step: the accessed tag ends at the MRU end, and a miss in a
\* full set drops exactly the resident tag whose last access is the oldest.
AccessStepLRU ==
    \A address \in Addresses :
        (pc = "ready" /\ pc' = "ready" /\ lastCall'.op = "access"
            /\ hist' = Append(hist, address)) =>
        LET p == parse_address(sim, address)
            before == sim.cache[p.index]
            after == sim'.cache[p.index]
        IN /\ after[Len(after)] = p.tag
           /\ (~InSeq(p.tag, before) /\ Len(before) = sim.associativity) =>
                 \E victim \in SeqToSet(before) :
                    /\ \A t \in SeqToSet(before) \ {victim} :
                          LastAccess(sim, hist, p.index, victim)
                            < LastAccess(sim, hist, p.index, t)
                    /\ after = Append(Without(before, victim), p.tag)
           /\ (InSeq(p.tag, before) \/ Len(before) < sim.associativity) =>
                 after = Append(Without(before, p.tag), p.tag)

\* C1: every set is ordered by recency of last access (a hit moves the tag
\* to the MRU end), and a miss in a full set evicts the resident tag whose
\* most recent access is the oldest and inserts the new tag at the MRU end.
C1_LRUOrder == []RecencyOrdered /\ [][AccessStepLRU]_vars

\* A miss has just evicted from a full 2-way set whose tags had been hit.
C1_Witness ==
    /\ pc = "ready"
    /\ sim.associativity = 2
    /\ sim.hits >= 1
    /\ lastCall.op = "access"
    /\ lastCall.results = <<FALSE>>
    /\ LET index == parse_address(sim, hist[Len(hist)]).index
       IN /\ Len(sim.cache[index]) = 2
          /\ Cardinality(TagsSeen(sim, hist, index)) = 3

\* C2: hits + misses = total_accesses in every state, and run_trace on a
\* fresh simulator leaves total_accesses equal to the trace length.
C2_CountersAddUp ==
    pc = "ready" =>
        /\ sim.hits + sim.misses = sim.total_accesses
        /\ (lastCall.op = "run_trace" /\ used = Len(lastCall.trace)) =>
              /\ sim.total_accesses = Len(lastCall.trace)
              /\ lastCall.stats.total_accesses = Len(lastCall.trace)
              /\ lastCall.stats.hits + lastCall.stats.misses = Len(lastCall.trace)

\* run_trace of a two-address trace on a fresh simulator, with a hit.
C2_Witness ==
    /\ pc = "ready"
    /\ lastCall.op = "run_trace"
    /\ Len(lastCall.trace) = 2
    /\ used = 2
    /\ sim.hits = 1

\* C3: every set holds at most `associativity` tags, none of them twice.
C3_SetsBounded ==
    pc = "ready" =>
        \A index \in DOMAIN sim.cache :
            /\ Len(sim.cache[index]) <= sim.associativity
            /\ NoDuplicates(sim.cache[index])

\* A full set that has seen more tags than it holds.
C3_Witness ==
    /\ pc = "ready"
    /\ \E index \in DOMAIN sim.cache :
          /\ Len(sim.cache[index]) = sim.associativity
          /\ Cardinality(TagsSeen(sim, hist, index)) > sim.associativity

\* A geometry as the data model defines it.
IsPowerOfTwo(n) == \E k \in 0..n : Pow2(k) = n

WellFormedGeometry(cache_size, block_size, associativity) ==
    /\ cache_size > 0 /\ block_size > 0 /\ associativity > 0
    /\ IsPowerOfTwo(block_size)
    /\ cache_size % (block_size * associativity) = 0

\* C4: construction rejects every geometry with a non-positive value, a
\* block_size that is no power of two, or a cache_size that is no positive
\* multiple of block_size * associativity.
C4_RejectsInvalidGeometry ==
    pc = "ready" => WellFormedGeometry(args[1], args[2], args[3])

\* C5: for every accepted geometry and every address, access does not fail:
\* the set index is in 0..num_sets-1.  The index depends on the address
\* modulo 2^(offset_bits + index_bits) only, so these addresses are all.
C5_IndexInRange ==
    /\ pc /= "IndexError"
    /\ pc = "ready" =>
          \A address \in 0..(Pow2(sim.offset_bits + sim.index_bits) - 1) :
              parse_address(sim, address).index \in 0..(sim.num_sets - 1)

\* An access to a cache whose number of sets is no power of two.
C5_Witness ==
    /\ pc = "ready"
    /\ sim.num_sets = 3
    /\ lastCall.op = "access"

\* C7: reset empties every set and zeroes the counters, and a run_trace
\* that follows a reset gives the per-access results, the statistics and
\* the state that it gives on a freshly constructed simulator.
C7_ResetReplay ==
    pc = "ready" =>
        /\ lastCall.op = "reset" => sim = New(args[1], args[2], args[3])
        /\ (lastCall.op = "run_trace" /\ hist = lastCall.trace) =>
              LET fresh == run_trace(New(args[1], args[2], args[3]), lastCall.trace)
              IN /\ sim = fresh.sim
                 /\ lastCall.results = fresh.results
                 /\ lastCall.stats = fresh.stats

\* A replay with a hit, after a reset that dropped earlier accesses.
C7_Witness ==
    /\ pc = "ready"
    /\ lastCall.op = "run_trace"
    /\ hist = lastCall.trace
    /\ Len(hist) = 2
    /\ used > Len(hist)
    /\ sim.hits = 1

\* C8: in a fully-associative cache, while the trace holds no more distinct
\* lines than the cache has blocks, nothing is evicted, the misses are the
\* distinct lines and every access to a line seen before is a hit.
C8_FullyAssociative ==
    (/\ pc = "ready"
     /\ sim.associativity = sim.num_blocks
     /\ Cardinality(Lines(sim, hist)) <= sim.num_blocks) =>
        /\ sim.num_sets = 1
        /\ SeqToSet(sim.cache[0]) = Lines(sim, hist)
        /\ sim.misses = Cardinality(Lines(sim, hist))
        /\ sim.hits = Len(hist) - Cardinality(Lines(sim, hist))
        /\ lastCall.op = "access" =>
              lastCall.results[1] =
                 (hist[Len(hist)] \div Pow2(sim.offset_bits)
                    \in Lines(sim, SubSeq(hist, 1, Len(hist) - 1)))

\* A fully-associative 2-block cache holding both lines, hit by an access.
C8_Witness ==
    /\ pc = "ready"
    /\ sim.associativity = sim.num_blocks
    /\ sim.num_blocks = 2
    /\ Cardinality(Lines(sim, hist)) = 2
    /\ lastCall.op = "access"
    /\ lastCall.results = <<TRUE>>

(***************************************************************************)
(* SpecEval: a workload is generated and evaluate_cache_config is applied  *)
(* to it, as run_baseline_experiments does for each workload.              *)
(***************************************************************************)
InitEval ==
    /\ pc = "start"
    /\ RestIdle
    /\ args \in EvalCacheSizes \X EvalBlockSizes \X Assocs
    /\ sim = Unbuilt
    /\ hist = <<>>
    /\ used = 0
    /\ lastCall = Call("none", <<>>, <<>>, NoStats)
    /\ workload = NoWorkload
    /\ miss_rate = Rate(0, 1)
    /\ opt = NoOptimizer
    /\ evals = <<>>
    /\ pareto = <<>>
    /\ costs = <<>>
    /\ gemm = NoGemm

GenSequential ==
    /\ pc = "start"
    /\ \E array_size \in 0..MaxScan :
         workload' = Workload("sequential", array_size,
                              sequential_scan_trace(array_size, 1, SequentialBase))
    /\ pc' = "generated"
    /\ UNCHANGED <<args, sim, hist, used, lastCall, miss_rate, opt, evals,
                 pareto, costs, gemm, restVars>>

GenArbitrary ==
    /\ pc = "start"
    /\ \E trace \in Traces : workload' = Workload("arbitrary", Len(trace), trace)
    /\ pc' = "generated"
    /\ UNCHANGED <<args, sim, hist, used, lastCall, miss_rate, opt, evals,
                 pareto, costs, gemm, restVars>>

Evaluate ==
    /\ pc = "generated"
    /\ LET r == evaluate_cache_config(args[1], args[2], args[3], workload.trace)
       IN /\ miss_rate' = r.value
          /\ sim' = r.sim
          /\ pc' = IF r.raised = "none" THEN "returned" ELSE r.raised
    /\ UNCHANGED <<args, hist, used, lastCall, workload, opt, evals,
                 pareto, costs, gemm, restVars>>

NextEval == GenSequential \/ GenArbitrary \/ Evaluate

SpecEval == InitEval /\ [][NextEval]_vars

RateEq(r, q) == r.num * q.den = q.num * r.den

\* The invalid geometries the claim lists.
StructurallyInvalid(cache_size, block_size, associativity) ==
    \/ cache_size <= 0 \/ block_size <= 0 \/ associativity <= 0
    \/ ~IsPowerOfTwo(block_size)
    \/ associativity > cache_size \div block_size
    \/ (cache_size \div block_size) \div associativity = 0

\* C6: evaluate_cache_config never raises; for a structurally invalid
\* configuration it returns 1.0, for every other one it returns
\* misses/accesses, a value in [0,1], which is 0.0 for the empty trace.
C6_EvaluateTotal ==
    /\ pc \in {"start", "generated", "returned"}
    /\ pc = "returned" =>
          IF StructurallyInvalid(args[1], args[2], args[3])
          THEN miss_rate.num = 1 /\ miss_rate.den = 1
          ELSE /\ miss_rate.den > 0
               /\ 0 <= miss_rate.num /\ miss_rate.num <= miss_rate.den
               /\ sim.total_accesses = Len(workload.trace)
               /\ IF workload.trace = <<>>
                  THEN miss_rate.num = 0
                  ELSE RateEq(miss_rate, Rate(sim.misses, Len(workload.trace)))

\* A geometry with more ways than blocks (zero sets), evaluated on accesses.
C6_Witness ==
    /\ pc = "returned"
    /\ args[1] > 0 /\ args[2] > 0 /\ args[3] > 0
    /\ IsPowerOfTwo(args[2])
    /\ args[3] > args[1] \div args[2]
    /\ workload.trace /= <<>>
    /\ miss_rate = Rate(1, 1)

ScanCounts(block_size) ==
    /\ sim.misses = CeilDiv(4 * workload.array_size, block_size)
    /\ sim.hits = workload.array_size - CeilDiv(4 * workload.array_size, block_size)

\* C9 as stated: for any accepted configuration the stride-1 scan of n
\* words gives ceil(4n / block_size) misses and n - ceil(4n / block_size) hits.
C9_ScanMissesAnyBlock ==
    (/\ pc = "returned"
     /\ workload.kind = "sequential"
     /\ ValidGeometry(args[1], args[2], args[3])) => ScanCounts(args[2])

\* C9 amended: the same, for an accepted configuration with block_size >= 4
\* that divides the scan's base address 0x30000.
C9_ScanMisses ==
    (/\ pc = "returned"
     /\ workload.kind = "sequential"
     /\ ValidGeometry(args[1], args[2], args[3])
     /\ args[2] >= 4
     /\ SequentialBase % args[2] = 0) => ScanCounts(args[2])

\* A scan over several 8-byte blocks, with hits.
C9_Witness ==
    /\ pc = "returned"
    /\ workload.kind = "sequential"
    /\ workload.array_size >= 4
    /\ ValidGeometry(args[1], args[2], args[3])
    /\ args[2] = 8
    /\ sim.misses >= 2
    /\ sim.hits >= 2

(***************************************************************************)
(* SpecOpt: runs of BayesianCacheOptimizer.optimize.  gp_minimize is the   *)
(* library's: it calls objective_wrapper n_calls times, one call after the *)
(* other, at points of the search space of its choosing; the objective     *)
(* function is the caller's and returns any rate or raises.                *)
(***************************************************************************)
\* The caps tried: below min_cache_size, no multiple of a block size, the
\* cap of the quick test (main.py) and the default.
MaxCacheSizeChoices == {1000, 5000, 8192, 65536}

\* The points gp_minimize may suggest: the corners of the search space.
Suggested == {x \in SearchSpace : x[1] \in {10, 16} /\ x[2] \in {4, 9} /\ x[3] \in {0, 4}}

ObjectiveResults == {Returned(Rate(k, MaxRate)) : k \in 0..MaxRate} \cup {Raised}

InitOpt ==
    /\ pc = "idle"
    /\ RestIdle
    /\ args = <<0, 0, 0>>
    /\ sim = Unbuilt
    /\ hist = <<>>
    /\ used = 0
    /\ lastCall = Call("none", <<>>, <<>>, NoStats)
    /\ workload = NoWorkload
    /\ miss_rate = Rate(0, 1)
    /\ \E max_cache_size \in MaxCacheSizeChoices, n_calls \in 1..MaxCalls,
          verbose \in BOOLEAN :
         opt = NewOptimizer(max_cache_size, DefaultMinCacheSize, n_calls, verbose)
    /\ evals = <<>>
    /\ pareto = <<>>
    /\ costs = <<>>
    /\ gemm = NoGemm

\* optimize, up to the call of gp_minimize.  A frontier extracted from the
\* previous run's history is dropped with that history.
OptimizeStart ==
    /\ pc \in {"idle", "done"}
    /\ opt' = [opt EXCEPT !.history = <<>>, !.best_config = NoConfig,
                          !.best_miss_rate = Infinity]
    /\ evals' = <<>>
    /\ pc' = "running"
    /\ pareto' = <<>>
    /\ UNCHANGED <<args, sim, hist, used, lastCall, workload, miss_rate, costs, gemm, restVars>>

\* One evaluation gp_minimize makes.
OptimizeEvaluate ==
    /\ pc = "running"
    /\ Len(evals) < opt.n_calls
    /\ \E x \in Suggested, result \in ObjectiveResults :
         LET r == objective_wrapper(opt, x, result)
         IN /\ opt' = r.opt
            /\ evals' = Append(evals, [x |-> x, call |-> r.call, y |-> r.y])
    /\ UNCHANGED <<pc, args, sim, hist, used, lastCall, workload, miss_rate,
                 pareto, costs, gemm, restVars>>

\* optimize, after gp_minimize has returned: the report subscripts
\* best_config, which is None when nothing was recorded.
OptimizeFinish ==
    /\ pc = "running"
    /\ Len(evals) = opt.n_calls
    /\ pc' = IF opt.verbose /\ opt.best_config = NoConfig THEN "TypeError" ELSE "done"
    /\ UNCHANGED <<args, sim, hist, used, lastCall, workload, miss_rate, opt, evals,
                 pareto, costs, gemm, restVars>>

\* get_pareto_frontier, called before or after a run.
GetParetoFrontier ==
    /\ pc \in {"idle", "done"}
    /\ pareto' = get_pareto_frontier(opt)
    /\ UNCHANGED <<pc, args, sim, hist, used, lastCall, workload, miss_rate, opt, evals,
                 costs, gemm, restVars>>

NextOpt == OptimizeStart \/ OptimizeEvaluate \/ OptimizeFinish \/ GetParetoFrontier

SpecOpt == InitOpt /\ [][NextOpt]_vars

\* The entries the evaluations e should have left, in order: one for each
\* evaluation whose configuration is valid and whose objective call returned.
RECURSIVE ExpectedHistory(_, _)
ExpectedHistory(o, e) ==
    IF e = <<>> THEN <<>>
    ELSE LET rest == ExpectedHistory(o, SubSeq(e, 1, Len(e) - 1))
             last == e[Len(e)]
             c == decode_params(o.max_cache_size, last.x[1], last.x[2], last.x[3])
         IN IF validate_config(o, c[1], c[2], c[3]) /\ last.call = "returned"
            THEN Append(rest, Config(c, last.y))
            ELSE rest

IsPrefix(s, t) == Len(s) <= Len(t) /\ SubSeq(t, 1, Len(s)) = s

HistoryRecordsEvaluations ==
    pc \in {"running", "done", "TypeError"} =>
        /\ opt.history = ExpectedHistory(opt, evals)
        /\ pc /= "running" => Len(evals) = opt.n_calls

HistoryAppendOnly ==
    (pc = "running" /\ pc' = "running") =>
        /\ IsPrefix(opt.history, opt'.history)
        /\ Len(opt'.history) <= Len(opt.history) + 1

Below(r, q) == r.num * q.den < q.num * r.den
AtMost(r, q) == r.num * q.den <= q.num * r.den

BestIsEarliestMinimum ==
    (pc \in {"running", "done", "TypeError"} /\ opt.history /= <<>>) =>
        \E i \in 1..Len(opt.history) :
            /\ \A j \in 1..Len(opt.history) :
                   AtMost(opt.history[i].miss_rate, opt.history[j].miss_rate)
            /\ \A j \in 1..(i - 1) :
                   Below(opt.history[i].miss_rate, opt.history[j].miss_rate)
            /\ opt.best_miss_rate = opt.history[i].miss_rate
            /\ opt.best_config = opt.history[i]

BestReplacedOnImprovement ==
    (pc = "running" /\ pc' = "running" /\ opt'.best_config /= opt.best_config) =>
        /\ Below(opt'.best_miss_rate, opt.best_miss_rate)
        /\ opt'.best_config = opt'.history[Len(opt'.history)]

\* C11: after every evaluation of a run whose history is not empty,
\* best_miss_rate is the minimum miss_rate of the history and best_config is
\* the earliest history entry with that miss_rate; an evaluation replaces
\* the best only by its own entry and only when that is a strict
\* improvement.
C11_BestIsFirstMinimum ==
    []BestIsEarliestMinimum /\ [][BestReplacedOnImprovement]_vars

\* Two recorded evaluations of different configurations tie on the minimum
\* and the best is the first of them.
C11_Witness ==
    /\ pc \in {"running", "done"}
    /\ Len(opt.history) = 2
    /\ opt.history[1].miss_rate = opt.history[2].miss_rate
    /\ opt.history[1] /= opt.history[2]
    /\ opt.best_config = opt.history[1]

\* The evaluation a step of the run has just made, when it has made one.
Evaluated == pc = "running" /\ Len(evals') = Len(evals) + 1

RaiseIsAbsorbed ==
    (Evaluated /\ evals'[Len(evals')].call = "raised") =>
        /\ pc' = "running"
        /\ evals'[Len(evals')].y.num = evals'[Len(evals')].y.den
        /\ opt'.best_config = opt.best_config
        /\ opt'.best_miss_rate = opt.best_miss_rate
        /\ opt'.history = opt.history

RunSpendsBudget ==
    /\ (pc = "running" /\ Len(evals) < opt.n_calls) => ENABLED OptimizeEvaluate
    /\ pc \in {"done", "TypeError"} => Len(evals) = opt.n_calls

\* C12: an evaluation whose objective call raises leaves the run running,
\* hands the value 1.0 back for that point and changes neither best_config
\* nor best_miss_rate (nor the history); the run goes on evaluating until
\* n_calls evaluations are made and ends only then.
C12_RaiseIsAbsorbed == []RunSpendsBudget /\ [][RaiseIsAbsorbed]_vars

\* A finished run whose first evaluation raised and whose second one,
\* made after it, was recorded and became the best.
C12_Witness ==
    /\ pc = "done"
    /\ Len(evals) = 2
    /\ evals[1].call = "raised"
    /\ evals[2].call = "returned"
    /\ opt.best_config = opt.history[1]

\* The configuration the evaluation e decoded, and whether it called the
\* objective function.
DecodedConfig(e) == decode_params(opt.max_cache_size, e.x[1], e.x[2], e.x[3])
ObjectiveCalled(e) == e.call \in {"returned", "raised"}

\* C13: within one run the objective function is called at most once for
\* each decoded configuration (a repeated suggestion is answered from a
\* cache).
C13_ObjectiveCalledOncePerConfig ==
    \A i, j \in 1..Len(evals) :
        (i < j /\ ObjectiveCalled(evals[i]) /\ ObjectiveCalled(evals[j]))
            => DecodedConfig(evals[i]) /= DecodedConfig(evals[j])

\* What C14 asks of a configuration <<cache_size, block_size, associativity>>.
WithinConstraints(o, c) ==
    /\ o.min_cache_size <= c[1] /\ c[1] <= o.max_cache_size
    /\ c[1] % c[2] = 0
    /\ 1 <= c[3] /\ c[3] <= c[1] \div c[2]
    /\ ValidGeometry(c[1], c[2], c[3])

\* C14: every configuration the objective function is called with, and so
\* every history entry, lies within [min_cache_size, max_cache_size], has a
\* block_size that divides cache_size and an associativity within
\* 1..cache_size/block_size, and is accepted by the CacheSimulator
\* constructor; for every cap this holds of every exponent triple of the
\* search space that passes _validate_config.
C14_ConfigsWithinConstraints ==
    /\ \A i \in 1..Len(evals) :
           ObjectiveCalled(evals[i]) => WithinConstraints(opt, DecodedConfig(evals[i]))
    /\ \A i \in 1..Len(opt.history) :
           WithinConstraints(opt, <<opt.history[i].cache_size,
                                    opt.history[i].block_size,
                                    opt.history[i].associativity>>)
    /\ pc = "idle" =>
           \A x \in SearchSpace :
               LET c == decode_params(opt.max_cache_size, x[1], x[2], x[3])
               IN validate_config(opt, c[1], c[2], c[3]) => WithinConstraints(opt, c)

\* The objective was called with a cache_size clamped to the cap and, in
\* another evaluation, with an associativity clamped to the block count.
C14_Witness ==
    /\ Len(evals) = 2
    /\ ObjectiveCalled(evals[1]) /\ ObjectiveCalled(evals[2])
    /\ Pow2(evals[1].x[1]) > opt.max_cache_size
    /\ DecodedConfig(evals[1])[1] = opt.max_cache_size
    /\ DecodedConfig(evals[2])[3] < Pow2(evals[2].x[3])
    /\ Len(opt.history) = 2

\* The exponents that encode a tuple of powers of two.
encode_params(t) == <<log2_int(t[1]), log2_int(t[2]), log2_int(t[3])>>

\* The tuple of powers of two the exponents x stand for.
Powers(x) == <<Pow2(x[1]), Pow2(x[2]), Pow2(x[3])>>

RoundTrip(max_cache_size, t) ==
    LET x == encode_params(t)
    IN decode_params(max_cache_size, x[1], x[2], x[3]) = t

\* C15 as stated: every tuple of powers of two in range (cache size within
\* the cap) is what decoding its exponents returns.
C15_RoundTripInRange ==
    /\ pc = "idle" =>
           \A x \in SearchSpace :
               Powers(x)[1] <= opt.max_cache_size
                   => RoundTrip(opt.max_cache_size, Powers(x))
    /\ \A i \in 1..Len(evals) :
           Powers(evals[i].x)[1] <= opt.max_cache_size
               => /\ encode_params(Powers(evals[i].x)) = evals[i].x
                  /\ DecodedConfig(evals[i]) = Powers(evals[i].x)

\* The tuple has at least assoc blocks.
Achievable(t) == t[3] <= t[1] \div t[2]

\* C15 amended: every tuple of powers of two in range whose associativity
\* is at most size / block is what decoding its exponents returns.
C15_RoundTripAchievable ==
    /\ pc = "idle" =>
           \A x \in SearchSpace :
               (Powers(x)[1] <= opt.max_cache_size /\ Achievable(Powers(x)))
                   => RoundTrip(opt.max_cache_size, Powers(x))
    /\ \A i \in 1..Len(evals) :
           (Powers(evals[i].x)[1] <= opt.max_cache_size /\ Achievable(Powers(evals[i].x)))
               => /\ encode_params(Powers(evals[i].x)) = evals[i].x
                  /\ DecodedConfig(evals[i]) = Powers(evals[i].x)

\* An evaluation decoded the exponents of the largest tuple in range and
\* called the objective with that tuple.
C15_Witness ==
    \E i \in 1..Len(evals) :
        /\ evals[i].x = <<16, 4, 4>>
        /\ Powers(evals[i].x)[1] <= opt.max_cache_size
        /\ ObjectiveCalled(evals[i])
        /\ DecodedConfig(evals[i]) = <<65536, 16, 16>>

\* The points of a sequence.
Points(s) == {s[i] : i \in 1..Len(s)}

\* h dominates p on (cache_size down, miss_rate down): no worse on both
\* and strictly better on one.
DominatesOnSize(h, p) ==
    /\ h.cache_size <= p.cache_size
    /\ AtMost(h.miss_rate, p.miss_rate)
    /\ (h.cache_size < p.cache_size \/ Below(h.miss_rate, p.miss_rate))

\* C16: no point get_pareto_frontier emits is dominated by a history entry
\* (smaller or equal cache_size and miss_rate, one of them strictly); of
\* the entries with one cache_size only the one with the better miss rate
\* is emitted.
C16_EmittedNonDominated ==
    pc = "done" =>
        \A p \in Points(pareto) : \A h \in Points(opt.history) : ~DominatesOnSize(h, p)

\* C17: every history entry get_pareto_frontier leaves out has an emitted
\* entry with cache_size and miss_rate both smaller or equal.
C17_OmittedDominated ==
    (pc = "done" /\ pareto /= <<>>) =>
        /\ Points(pareto) \subseteq Points(opt.history)
        /\ \A h \in Points(opt.history) \ Points(pareto) :
               \E p \in Points(pareto) :
                   /\ p.cache_size <= h.cache_size
                   /\ AtMost(p.miss_rate, h.miss_rate)

\* A larger cache recorded first with the worse miss rate is left out for
\* the smaller cache recorded after it.
C17_Witness ==
    /\ pc = "done"
    /\ Len(opt.history) = 2
    /\ opt.history[1].cache_size > opt.history[2].cache_size
    /\ pareto = <<opt.history[2]>>

(***************************************************************************)
(* SpecPareto: extract_pareto applied to a list of costs.  A cost is       *)
(* the two fields of a GEMMCost that extract_pareto reads.                 *)
(***************************************************************************)
CostPoints ==
    {[dram_total |-> d, compute_utilisation |-> Rate(u, MaxUtil)] :
        d \in 0..MaxDram, u \in 0..MaxUtil}

InitPareto ==
    /\ pc = "costs"
    /\ RestIdle
    /\ args = <<0, 0, 0>>
    /\ sim = Unbuilt
    /\ hist = <<>>
    /\ used = 0
    /\ lastCall = Call("none", <<>>, <<>>, NoStats)
    /\ workload = NoWorkload
    /\ miss_rate = Rate(0, 1)
    /\ opt = NoOptimizer
    /\ evals = <<>>
    /\ pareto = <<>>
    /\ costs \in SeqsUpTo(CostPoints, MaxCosts)
    /\ gemm = NoGemm

ExtractPareto ==
    /\ pc = "costs"
    /\ pareto' = extract_pareto(costs)
    /\ pc' = "extracted"
    /\ UNCHANGED <<args, sim, hist, used, lastCall, workload, miss_rate, opt, evals,
                 costs, gemm, restVars>>

NextPareto == ExtractPareto

SpecPareto == InitPareto /\ [][NextPareto]_vars

\* c dominates p on (dram_total down, compute_utilisation up): no worse on
\* both and strictly better on one.
DominatesOnDram(c, p) ==
    /\ c.dram_total <= p.dram_total
    /\ AtMost(p.compute_utilisation, c.compute_utilisation)
    /\ (c.dram_total < p.dram_total
          \/ Below(p.compute_utilisation, c.compute_utilisation))

\* C18: no cost extract_pareto returns is dominated by an input cost, the
\* returned list ascends in dram_total with strictly increasing
\* utilisation, and every input cost left out is dominated by a returned
\* one.
C18_TilingFrontier ==
    pc = "extracted" =>
        /\ \A p \in Points(pareto) : \A c \in Points(costs) : ~DominatesOnDram(c, p)
        /\ \A i, j \in 1..Len(pareto) :
               i < j => /\ pareto[i].dram_total <= pareto[j].dram_total
                        /\ Below(pareto[i].compute_utilisation,
                                 pareto[j].compute_utilisation)
        /\ \A c \in Points(costs) \ Points(pareto) :
               \E p \in Points(pareto) : DominatesOnDram(p, c)

(***************************************************************************)
(* SpecGemm: compute_gemm_cost applied to a shape, a tiling and a          *)
(* hardware configuration, and applied again with more SRAM.               *)
(***************************************************************************)
Shapes == {GEMMShape(M, N, K) : M \in 1..MaxM, N \in 1..MaxN, K \in 1..MaxK}

Tilings ==
    {TilingConfig(tile_m, tile_n, tile_k, buffer_scheme) :
        tile_m \in 1..MaxTile, tile_n \in 1..MaxTile, tile_k \in 1..MaxTile,
        buffer_scheme \in BufferSchemes}

SramChoices == {2 * k : k \in 0..MaxSramSteps}

MacArrays == {2, default_mac_array}

HWConfigs == {HWConfig(sram, mac, mac) : sram \in SramChoices, mac \in MacArrays}

InitGemm ==
    /\ pc = "tiling"
    /\ RestIdle
    /\ args = <<0, 0, 0>>
    /\ sim = Unbuilt
    /\ hist = <<>>
    /\ used = 0
    /\ lastCall = Call("none", <<>>, <<>>, NoStats)
    /\ workload = NoWorkload
    /\ miss_rate = Rate(0, 1)
    /\ opt = NoOptimizer
    /\ evals = <<>>
    /\ pareto = <<>>
    /\ costs = <<>>
    /\ \E shape \in Shapes, tiling \in Tilings, hw \in HWConfigs :
         gemm = GemmCalls(shape, tiling, hw, None, 0, None)

ComputeGemmCost ==
    /\ pc = "tiling"
    /\ gemm' = [gemm EXCEPT !.cost = compute_gemm_cost(gemm.shape, gemm.tiling, gemm.hw)]
    /\ pc' = "costed"
    /\ UNCHANGED <<args, sim, hist, used, lastCall, workload, miss_rate, opt, evals,
                 pareto, costs, restVars>>

\* The same shape and tiling on hardware that differs in sram_total_bytes only.
ComputeWithMoreSram ==
    /\ pc = "costed"
    /\ \E more_sram \in {sram \in SramChoices : sram >= gemm.hw.sram_total_bytes} :
         gemm' = [gemm EXCEPT
                    !.more_sram = more_sram,
                    !.cost_more =
                        compute_gemm_cost(gemm.shape, gemm.tiling,
                                          [gemm.hw EXCEPT !.sram_total_bytes = more_sram])]
    /\ pc' = "compared"
    /\ UNCHANGED <<args, sim, hist, used, lastCall, workload, miss_rate, opt, evals,
                 pareto, costs, restVars>>

NextGemm == ComputeGemmCost \/ ComputeWithMoreSram

SpecGemm == InitGemm /\ [][NextGemm]_vars

\* A-buffer + B-buffer + one C-tile of a tiling clamped to the shape.
MinFootprint(shape, tiling) ==
    LET tm == min2(tiling.tile_m, shape.M)
        tn == min2(tiling.tile_n, shape.N)
        tk == min2(tiling.tile_k, shape.K)
    IN (IF tiling.buffer_scheme \in {"double_a", "double_ab"} THEN 2 ELSE 1)
           * CeilDiv(tm * tk * act_bytes.num, act_bytes.den)
       + (IF tiling.buffer_scheme \in {"double_b", "double_ab"} THEN 2 ELSE 1)
           * CeilDiv(tk * tn * weight_bytes.num, weight_bytes.den)
       + tm * tn * acc_bytes

FitsOrNone(cost, sram_total_bytes) ==
    /\ cost.is_none <=> MinFootprint(gemm.shape, gemm.tiling) > sram_total_bytes
    /\ ~cost.is_none =>
           /\ cost.sram_a + cost.sram_b + cost.sram_c = cost.sram_total
           /\ cost.sram_total <= sram_total_bytes

\* C19: compute_gemm_cost returns None exactly when A-buffer + B-buffer +
\* one C-tile exceeds sram_total_bytes, and a cost it returns has
\* sram_a + sram_b + sram_c = sram_total <= sram_total_bytes.
C19_SramFootprint ==
    /\ pc \in {"costed", "compared"} => FitsOrNone(gemm.cost, gemm.hw.sram_total_bytes)
    /\ pc = "compared" => FitsOrNone(gemm.cost_more, gemm.more_sram)

\* A cost whose C-tiles do not fill the SRAM left by the buffers, and a
\* tiling that does not fit.
C19_Witness ==
    /\ pc = "compared"
    /\ gemm.cost.is_none
    /\ ~gemm.cost_more.is_none
    /\ gemm.cost_more.sram_total < gemm.more_sram
    /\ gemm.cost_more.sram_c > acc_bytes

\* C20: when the tiling fits in sram_total_bytes = S1 and S2 >= S1, the
\* cost at S2 has dram_total and total_cycles no larger than the cost at S1.
C20_MonotoneInSram ==
    (pc = "compared" /\ ~gemm.cost.is_none) =>
        /\ ~gemm.cost_more.is_none
        /\ gemm.cost_more.dram_total <= gemm.cost.dram_total
        /\ gemm.cost_more.total_cycles <= gemm.cost.total_cycles

(***************************************************************************)
(* SpecCycles: _compute_total_cycles applied to one set of tile counts and *)
(* tile sizes under each of the four buffer schemes, on DEFAULT_HW.        *)
(***************************************************************************)
MaxGroups == 2
MaxJc == 2

\* Tile sizes in bytes and compute cycles of a tile: a small and a large one.
TileBytes == {1, 128}
CTileBytes == {4, 64}
ComputePerTile == {1, 32}

CycleArgs ==
    [n_m : 1..MaxGroups, n_jg : 1..MaxGroups, n_k : 1..MaxGroups, j_c_eff : 1..MaxJc,
     a_tile_bytes : TileBytes, b_tile_bytes : TileBytes, c_tile_bytes : CTileBytes,
     compute_per_tile : ComputePerTile]

InitCycles ==
    /\ pc = "cycle_args"
    /\ CoreIdle
    /\ sweep = NoSweep
    /\ gen = NoGen
    /\ qs = NoQuick
    /\ pair = NoPair
    /\ \E a \in CycleArgs : cycles = [at |-> "args", args |-> a]

\* One call of _compute_total_cycles per scheme, all with the same arguments.
ComputeTotalCycles ==
    /\ pc = "cycle_args"
    /\ LET a == cycles.args
       IN cycles' =
            [at |-> "totals", args |-> a,
             total |-> [scheme \in BufferSchemes |->
                          compute_total_cycles(scheme, a.n_m, a.n_jg, a.n_k, a.j_c_eff,
                                               a.n_jg * a.j_c_eff, a.a_tile_bytes,
                                               a.b_tile_bytes, a.c_tile_bytes,
                                               a.compute_per_tile, DEFAULT_HW)]]
    /\ pc' = "cycles"
    /\ UNCHANGED <<coreVars, sweep, gen, qs, pair>>

NextCycles == ComputeTotalCycles

SpecCycles == InitCycles /\ [][NextCycles]_vars

\* The load of an A tile takes no longer than the load of a B tile and the
\* compute of a tile together.
LoadAHidden(a) ==
    dram_transfer_cycles(a.a_tile_bytes, 1)
      <= dram_transfer_cycles(a.b_tile_bytes, 1) + a.compute_per_tile * CycleUnits

\* C30 as stated: DOUBLE_AB takes at most the cycles of every other scheme,
\* and DOUBLE_A and DOUBLE_B at most those of SINGLE, whatever the tile
\* counts, j_c and per-tile cycles.
C30_DoubleABBest ==
    pc = "cycles" =>
        /\ cycles.total["double_ab"] <= cycles.total["single"]
        /\ cycles.total["double_ab"] <= cycles.total["double_a"]
        /\ cycles.total["double_ab"] <= cycles.total["double_b"]
        /\ cycles.total["double_a"] <= cycles.total["single"]
        /\ cycles.total["double_b"] <= cycles.total["single"]

\* C30, amended: DOUBLE_AB <= DOUBLE_A and DOUBLE_B <= SINGLE always; the
\* schemes that prefetch A pay one more load of A, so DOUBLE_A <= SINGLE,
\* DOUBLE_AB <= DOUBLE_B and DOUBLE_AB <= SINGLE hold when the load of an A
\* tile takes at most the load of a B tile plus the compute of a tile.
C30_DoubleABBestWhenLoadAHidden ==
    pc = "cycles" =>
        /\ cycles.total["double_ab"] <= cycles.total["double_a"]
        /\ cycles.total["double_b"] <= cycles.total["single"]
        /\ LoadAHidden(cycles.args) =>
             /\ cycles.total["double_a"] <= cycles.total["single"]
             /\ cycles.total["double_ab"] <= cycles.total["double_b"]
             /\ cycles.total["double_ab"] <= cycles.total["single"]

\* Several column tiles per group, compute longer than the load of B: both
\* overlaps pay off.
C30_Witness ==
    /\ pc = "cycles"
    /\ LoadAHidden(cycles.args)
    /\ cycles.args.j_c_eff >= 2
    /\ cycles.args.n_k >= 2
    /\ cycles.total["double_ab"] < cycles.total["double_b"]
    /\ cycles.total["double_ab"] < cycles.total["double_a"]
    /\ cycles.total["double_b"] < cycles.total["single"]
    /\ cycles.total["double_a"] < cycles.total["single"]

(***************************************************************************)
(* SpecSweep: sweep_gemm for every GEMM of a layer, in order, on one       *)
(* hardware configuration and one set of candidate lists, then             *)
(* compare_uniform_vs_per_gemm on the results.                             *)
(***************************************************************************)
MaxLayer == 2

SweepShapes == {GEMMShape(4, 4, 4), GEMMShape(2, 4, 4), GEMMShape(4, 2, 2)}

\* tile_m_list, tile_n_list, tile_k_list
TileLists == {<<2, 4>>, <<4>>}

\* sram_total_bytes: below the baseline's footprint, below every candidate's,
\* room for one or two small tiles, for the large tiles, for everything.
SweepSram == {4, 16, 38, 96, 2048}

SweepHWs == {HWConfig(sram, 1, 1) : sram \in SweepSram}

Layers == SeqsUpTo(SweepShapes, MaxLayer) \ {<<>>}

InitSweep ==
    /\ pc = "layer"
    /\ CoreIdle
    /\ cycles = NoCycles
    /\ gen = NoGen
    /\ qs = NoQuick
    /\ pair = NoPair
    /\ \E layer \in Layers, hw \in SweepHWs, tm \in TileLists, tn \in TileLists,
          tk \in TileLists :
         sweep = [at |-> "layer", layer |-> layer, hw |-> hw, tile_m_list |-> tm,
                  tile_n_list |-> tn, tile_k_list |-> tk, results |-> <<>>,
                  comparison |-> <<>>]

\* sweep_all_layer_gemms, one GEMM at a time.
Swept(r) ==
    IF r.baseline_cost.is_none
    THEN /\ pc' = "AssertionError"
         /\ sweep' = sweep
    ELSE /\ sweep' = [sweep EXCEPT !.results = Append(@, r)]
         /\ pc' = IF Len(sweep.results) + 1 = Len(sweep.layer) THEN "swept" ELSE "layer"

SweepGemm ==
    /\ pc = "layer"
    /\ Swept(sweep_gemm(sweep.layer[Len(sweep.results) + 1], sweep.hw,
                        sweep.tile_m_list, sweep.tile_n_list, sweep.tile_k_list))
    /\ UNCHANGED <<coreVars, cycles, gen, qs, pair>>

CompareUniformVsPerGemm ==
    /\ pc = "swept"
    /\ IF \E i \in 1..Len(sweep.results) : best_utilisation(sweep.results[i]).is_none
       THEN /\ pc' = "ValueError"
            /\ sweep' = sweep
       ELSE /\ pc' = "compared_layer"
            /\ sweep' = [sweep EXCEPT
                           !.comparison = compare_uniform_vs_per_gemm(sweep.results)]
    /\ UNCHANGED <<coreVars, cycles, gen, qs, pair>>

\* The properties best_utilisation and best_dram of every SweepResult, read
\* once the layer is swept; ValueError where the frontier is empty.
ReadBest ==
    /\ pc = "swept"
    /\ sweep.at = "layer"
    /\ sweep' = [sweep EXCEPT
                   !.at = "best",
                   !.comparison =
                       [i \in 1..Len(sweep.results) |->
                          [best_utilisation |-> best_utilisation(sweep.results[i]),
                           best_dram |-> best_dram(sweep.results[i])]]]
    /\ pc' = "best"
    /\ UNCHANGED <<coreVars, cycles, gen, qs, pair>>

NextSweep == SweepGemm \/ CompareUniformVsPerGemm \/ ReadBest

SpecSweep == InitSweep /\ [][NextSweep]_vars

SweptCosts ==
    UNION {SeqToSet(sweep.results[i].all_costs) \cup {sweep.results[i].baseline_cost} :
             i \in 1..Len(sweep.results)}

\* The compute time of all tile operations of a cost, from its tile counts,
\* in cycles.
PureComputeCycles(c, hw) ==
    c.n_tiles_m * c.n_tiles_n * c.n_tiles_k
      * (CeilDiv(min2(c.tiling.tile_m, c.shape.M), hw.mac_array_m)
           * CeilDiv(min2(c.tiling.tile_n, c.shape.N), hw.mac_array_n)
           * min2(c.tiling.tile_k, c.shape.K))

\* C21: a cost compute_gemm_cost returns has total_cycles at least
\* n_m * n_n * n_k * (ceil(tm/mac_M) * ceil(tn/mac_N) * tk), the pure
\* compute time, and so compute_utilisation at most 1.
C21_WallCoversCompute ==
    \A c \in SweptCosts :
        /\ PureComputeCycles(c, sweep.hw) * CycleUnits <= c.total_cycles
        /\ c.compute_utilisation.num <= c.compute_utilisation.den

\* A swept cost with both operands double-buffered in which loads overlap
\* compute and compute is the larger part of the wall cycles.
C21_Witness ==
    \E c \in SweptCosts :
        /\ c.tiling.buffer_scheme = "double_ab"
        /\ c.n_tiles_k >= 2
        /\ c.total_cycles < c.compute_cycles + c.memory_cycles
        /\ 2 * c.compute_cycles > c.total_cycles

\* C22: per_gemm_cycles <= uniform_cycles in every comparison
\* compare_uniform_vs_per_gemm returns.
C22_PerGemmAtMostUniform ==
    pc = "compared_layer" =>
        sweep.comparison.per_gemm_cycles <= sweep.comparison.uniform_cycles

SameTile(c, d) ==
    /\ c.tiling.tile_m = d.tiling.tile_m
    /\ c.tiling.tile_n = d.tiling.tile_n
    /\ c.tiling.tile_k = d.tiling.tile_k

\* Pairs of costs of one sweep with the same tile dimensions, the first
\* SINGLE and the second DOUBLE_B.
SingleAndDoubleB ==
    UNION {{<<c, d>> : c \in {x \in SeqToSet(sweep.results[i].all_costs) :
                                x.tiling.buffer_scheme = "single"},
                       d \in {x \in SeqToSet(sweep.results[i].all_costs) :
                                x.tiling.buffer_scheme = "double_b"}} :
             i \in 1..Len(sweep.results)}

\* C23 as stated: whenever SINGLE and DOUBLE_B both fit, the DOUBLE_B cost
\* has total_cycles at most the SINGLE cost's.
C23_DoubleBAtMostSingle ==
    \A p \in SingleAndDoubleB :
        SameTile(p[1], p[2]) => p[2].total_cycles <= p[1].total_cycles

\* C23, amended: whenever SINGLE and DOUBLE_B both fit and keep the same
\* number of output column tiles per group (j_c), the DOUBLE_B cost has
\* total_cycles at most the SINGLE cost's.
C23_DoubleBAtMostSingleSameJc ==
    \A p \in SingleAndDoubleB :
        SameTile(p[1], p[2]) /\ p[1].j_c = p[2].j_c
            => p[2].total_cycles <= p[1].total_cycles

\* Two column tiles per group under both schemes, and DOUBLE_B faster.
C23_Witness ==
    \E p \in SingleAndDoubleB :
        /\ SameTile(p[1], p[2])
        /\ p[1].j_c = p[2].j_c
        /\ p[1].j_c >= 2
        /\ p[2].total_cycles < p[1].total_cycles

MaxSeed == 1
MaxInstances == 2
MaxGenCalls == 2
MaxMatrix == 2
MaxRandomArray == 2
MaxAccesses == 2

GenCall(instance, kind, arguments, trace) ==
    [instance |-> instance, kind |-> kind, args |-> arguments, trace |-> trace]

InitTrace ==
    /\ pc = "traces"
    /\ CoreIdle
    /\ sweep = NoSweep
    /\ cycles = NoCycles
    /\ qs = NoQuick
    /\ pair = NoPair
    /\ gen = [at |-> "traces", rng |-> 0, seeds |-> <<>>, calls |-> <<>>]

\* TraceGenerator(seed)
NewTraceGenerator ==
    /\ pc = "traces"
    /\ Len(gen.seeds) < MaxInstances
    /\ \E seed \in 0..MaxSeed :
         gen' = [gen EXCEPT !.seeds = Append(@, seed), !.rng = random_seed(seed)]
    /\ UNCHANGED <<pc, coreVars, sweep, cycles, qs, pair>>

RandomAccessTrace ==
    /\ pc = "traces"
    /\ Len(gen.calls) < MaxGenCalls
    /\ \E instance \in 1..Len(gen.seeds), array_size \in 1..MaxRandomArray,
          num_accesses \in 0..MaxAccesses :
         LET r == random_access_trace(gen.rng, array_size, num_accesses, RandomBase)
         IN gen' = [gen EXCEPT
                      !.rng = r.state,
                      !.calls = Append(@, GenCall(instance, "random",
                                                  <<array_size, num_accesses>>, r.trace))]
    /\ UNCHANGED <<pc, coreVars, sweep, cycles, qs, pair>>

MatrixMultiplicationTrace ==
    /\ pc = "traces"
    /\ Len(gen.calls) < MaxGenCalls
    /\ \E instance \in 1..Len(gen.seeds), matrix_size \in 0..MaxMatrix :
         gen' = [gen EXCEPT
                   !.calls = Append(@, GenCall(instance, "matmul", <<matrix_size>>,
                                               matrix_multiplication_trace(matrix_size,
                                                                           MatmulBase)))]
    /\ UNCHANGED <<pc, coreVars, sweep, cycles, qs, pair>>

NextTrace == NewTraceGenerator \/ RandomAccessTrace \/ MatrixMultiplicationTrace

SpecTrace == InitTrace /\ [][NextTrace]_vars

\* The trace the claim describes: C[i][j], A[i][k], B[k][j], C[i][j] for
\* every (i, j, k) in loop order.
FourPerTriple(N, base_addr) ==
    LET A_base == base_addr
        B_base == A_base + N * N * element_size
        C_base == B_base + N * N * element_size
        quad(i, j, k) == <<C_base + (i * N + j) * element_size,
                           A_base + (i * N + k) * element_size,
                           B_base + (k * N + j) * element_size,
                           C_base + (i * N + j) * element_size>>
    IN Flatten([t \in 1..(N * N * N) |->
                  quad((t - 1) \div (N * N), ((t - 1) \div N) % N, (t - 1) % N)])

\* C25: matrix_multiplication_trace(N) is the four addresses C[i][j],
\* A[i][k], B[k][j], C[i][j] for each (i, j, k) in loop order, of length
\* 4 * N^3.
C25_FourPerTriple ==
    \A n \in 1..Len(gen.calls) :
        gen.calls[n].kind = "matmul" =>
            /\ gen.calls[n].trace = FourPerTriple(gen.calls[n].args[1], MatmulBase)
            /\ Len(gen.calls[n].trace)
                 = 4 * gen.calls[n].args[1] * gen.calls[n].args[1] * gen.calls[n].args[1]

\* C26: two calls of a randomised generator with the same arguments on
\* TraceGenerators of the same seed return the same trace, whatever was
\* constructed or called before them.
C26_DeterministicGivenSeed ==
    \A m, n \in 1..Len(gen.calls) :
        (/\ gen.calls[m].kind = "random"
         /\ gen.calls[n].kind = "random"
         /\ gen.seeds[gen.calls[m].instance] = gen.seeds[gen.calls[n].instance]
         /\ gen.calls[m].args = gen.calls[n].args)
            => gen.calls[m].trace = gen.calls[n].trace

(***************************************************************************)
(* SpecQuick: one call of quicksort_trace, one step per call of            *)
(* quicksort_trace_helper.  qs.stack holds the calls not yet made, the     *)
(* next one first; qs.parts the calls made, each with its range, the range *)
(* of the call that made it and the addresses it appended.  The draws of   *)
(* the random module are free choices.  The shuffled array is never read.  *)
(***************************************************************************)
MaxQuickArray == 5

HelperCall(low, high, parent) == [low |-> low, high |-> high, parent |-> parent]

HelperDone(call, emitted) ==
    [low |-> call.low, high |-> call.high, parent |-> call.parent, emitted |-> emitted]

InitQuick ==
    /\ pc = "quick_args"
    /\ CoreIdle
    /\ sweep = NoSweep
    /\ cycles = NoCycles
    /\ gen = NoGen
    /\ pair = NoPair
    /\ qs = NoQuick

\* quicksort_trace(array_size) up to the first call of the helper.
QuicksortTrace ==
    /\ pc = "quick_args"
    /\ \E array_size \in 0..MaxQuickArray :
         qs' = [at |-> "quicksort", array_size |-> array_size, base_addr |-> QuickBase,
                trace |-> <<>>, parts |-> <<>>,
                stack |-> <<HelperCall(0, array_size - 1, <<>>)>>]
    /\ pc' = "quicksort"
    /\ UNCHANGED <<coreVars, sweep, cycles, gen, pair>>

\* One call of quicksort_trace_helper(low, high), up to its recursive calls.
QuicksortTraceHelper ==
    /\ pc = "quicksort"
    /\ qs.stack /= <<>>
    /\ LET call == Head(qs.stack)
           pivot_pos == pivot_position(call.low, call.high)
       IN IF call.low < call.high
          THEN \E pivot_idx \in call.low..call.high, swapped \in SUBSET (call.low..call.high) :
                 LET emitted == partition(call.low, call.high, pivot_idx, swapped, qs.base_addr)
                 IN qs' = [qs EXCEPT
                             !.trace = @ \o emitted,
                             !.parts = Append(@, HelperDone(call, emitted)),
                             !.stack = <<HelperCall(call.low, pivot_pos - 1, <<call.low, call.high>>),
                                         HelperCall(pivot_pos + 1, call.high, <<call.low, call.high>>)>>
                                       \o Tail(@)]
          ELSE qs' = [qs EXCEPT !.parts = Append(@, HelperDone(call, <<>>)),
                                !.stack = Tail(@)]
    /\ UNCHANGED <<pc, coreVars, sweep, cycles, gen, pair>>

\* return trace
QuicksortReturn ==
    /\ pc = "quicksort"
    /\ qs.stack = <<>>
    /\ pc' = "returned"
    /\ UNCHANGED <<qs, coreVars, sweep, cycles, gen, pair>>

NextQuick == QuicksortTrace \/ QuicksortTraceHelper \/ QuicksortReturn

SpecQuick == InitQuick /\ [][NextQuick]_vars

\* The interpreter runs the call to its end: a step that can be taken is
\* taken.
SpecQuickLive == SpecQuick /\ WF_vars(NextQuick)

RangeSize(low, high) == IF high < low THEN 0 ELSE high - low + 1

\* A call made by the call on parent is on one of the two halves around the
\* midpoint of parent, a strictly smaller range.
SplitOfParent(call) ==
    call.parent /= <<>> =>
        LET mid == call.parent[1] + (call.parent[2] - call.parent[1]) \div 2
        IN /\ \/ call.low = call.parent[1] /\ call.high = mid - 1
              \/ call.low = mid + 1 /\ call.high = call.parent[2]
           /\ RangeSize(call.low, call.high) < RangeSize(call.parent[1], call.parent[2])

\* seq is one or two copies of the address of every index of low..high.
RECURSIVE OneOrTwoPerIndex(_, _, _, _)
OneOrTwoPerIndex(seq, low, high, base_addr) ==
    IF low > high THEN seq = <<>>
    ELSE /\ seq /= <<>>
         /\ seq[1] = base_addr + 4 * low
         /\ \/ OneOrTwoPerIndex(Tail(seq), low + 1, high, base_addr)
            \/ /\ Len(seq) >= 2
               /\ seq[2] = base_addr + 4 * low
               /\ OneOrTwoPerIndex(Tail(Tail(seq)), low + 1, high, base_addr)

PartitionShape(done, base_addr) ==
    IF done.low < done.high
    THEN /\ done.emitted /= <<>>
         /\ \E i \in done.low..done.high : done.emitted[1] = base_addr + 4 * i
         /\ OneOrTwoPerIndex(Tail(done.emitted), done.low, done.high, base_addr)
    ELSE done.emitted = <<>>

QuickSafe ==
    qs.at = "quicksort" =>
        /\ \A n \in 1..Len(qs.stack) : SplitOfParent(qs.stack[n])
        /\ \A n \in 1..Len(qs.parts) :
             /\ SplitOfParent(qs.parts[n])
             /\ PartitionShape(qs.parts[n], qs.base_addr)
        /\ qs.trace = Flatten([n \in 1..Len(qs.parts) |-> qs.parts[n].emitted])
        /\ \A n \in 1..Len(qs.trace) :
             \E i \in 0..(qs.array_size - 1) : qs.trace[n] = qs.base_addr + 4 * i

\* C27: quicksort_trace returns, whatever array_size >= 0 and whatever the
\* random draws; every call of the helper made by another is on a strictly
\* smaller range, one of the halves around the midpoint; a partition of
\* low..high with low < high appends a pivot address and then one or two
\* addresses per index of low..high; every address of the trace is
\* base_addr + 4*i with 0 <= i < array_size.
C27_QuicksortTerminates == []QuickSafe /\ <>(pc = "returned")

C27_Witness ==
    /\ pc = "returned"
    /\ qs.array_size = MaxQuickArray
    /\ Len(qs.parts) > 4
    /\ \E n \in 1..Len(qs.parts) :
         /\ qs.parts[n].parent /= <<>>
         /\ qs.parts[n].low < qs.parts[n].high
         /\ Len(qs.parts[n].emitted) = 2 + RangeSize(qs.parts[n].low, qs.parts[n].high)

(***************************************************************************)
(* SpecIncl: two CacheSimulators of the same block_size and the same       *)
(* number of sets, one of associativity a and one of a + 1, given the same *)
(* accesses one after the other.                                           *)
(***************************************************************************)
MaxInclSets == 2
MaxInclAssoc == 2
MaxInclAddr == 4
MaxInclOps == 5
InclBlockSizes == {1, 2}

InitIncl ==
    /\ pc = "pair_args"
    /\ CoreIdle
    /\ sweep = NoSweep
    /\ cycles = NoCycles
    /\ gen = NoGen
    /\ qs = NoQuick
    /\ pair = NoPair

\* CacheSimulator(num_sets * block_size * a, block_size, a) and
\* CacheSimulator(num_sets * block_size * (a + 1), block_size, a + 1)
NewPair ==
    /\ pc = "pair_args"
    /\ \E num_sets \in 1..MaxInclSets, block_size \in InclBlockSizes, a \in 1..MaxInclAssoc :
         /\ ValidGeometry(num_sets * block_size * a, block_size, a)
         /\ ValidGeometry(num_sets * block_size * (a + 1), block_size, a + 1)
         /\ pair' = [at |-> "pair",
                     small |-> New(num_sets * block_size * a, block_size, a),
                     big |-> New(num_sets * block_size * (a + 1), block_size, a + 1),
                     hit_small |-> FALSE, hit_big |-> FALSE]
    /\ pc' = "pair"
    /\ UNCHANGED <<coreVars, sweep, cycles, gen, qs>>

\* small.access(address); big.access(address)
AccessBoth ==
    /\ pc = "pair"
    /\ pair.small.total_accesses < MaxInclOps
    /\ \E address \in 0..MaxInclAddr :
         LET rs == access(pair.small, address)
             rb == access(pair.big, address)
         IN /\ pair' = [pair EXCEPT !.small = rs.sim, !.big = rb.sim,
                                    !.hit_small = rs.hit, !.hit_big = rb.hit]
            /\ pc' = IF rs.raised /= "none" THEN rs.raised
                     ELSE IF rb.raised /= "none" THEN rb.raised ELSE pc
    /\ UNCHANGED <<coreVars, sweep, cycles, gen, qs>>

NextIncl == NewPair \/ AccessBoth

SpecIncl == InitIncl /\ [][NextIncl]_vars

\* C28: with the same block_size and number of sets, after every access
\* each set of the a-way cache holds a subset of the tags of the same set of
\* the (a+1)-way cache, a hit in the a-way cache is a hit in the (a+1)-way
\* cache, and the (a+1)-way cache has no more misses.
C28_LRUInclusion ==
    pair.at = "pair" =>
        /\ pair.small.num_sets = pair.big.num_sets
        /\ \A i \in DOMAIN pair.small.cache :
             SeqToSet(pair.small.cache[i]) \subseteq SeqToSet(pair.big.cache[i])
        /\ pair.hit_small => pair.hit_big
        /\ pair.big.misses <= pair.small.misses
        /\ pc = "pair"

C28_Witness ==
    /\ pair.at = "pair"
    /\ pair.small.associativity >= 2
    /\ pair.big.misses < pair.small.misses
    /\ pair.big.misses > pair.big.associativity
    /\ pair.hit_big /\ ~pair.hit_small

(***************************************************************************)
(* Spec: the sets an address can select.                                   *)
(***************************************************************************)
\* The addresses of the first lines of the address space, one per block of
\* the cache.
ConsecutiveLines(s) == [k \in 1..s.num_blocks |-> (k - 1) * s.block_size]

\* The results of the second of two passes over ConsecutiveLines on a new
\* simulator of the geometry of s.
SecondPass(s) ==
    LET lines == ConsecutiveLines(s)
        r == run_accesses(New(s.cache_size, s.block_size, s.associativity),
                          lines \o lines, <<>>)
    IN SubSeq(r.results, Len(lines) + 1, Len(r.results))

\* C29: for every geometry the constructor accepts, every index in
\* 0..num_sets-1 is the set of some address, and a second pass over
\* cache_size / block_size consecutive lines hits on every access.
C29_AllSetsSelected ==
    pc = "ready" =>
        /\ \A index \in 0..(sim.num_sets - 1) :
             \E address \in 0..(2 * sim.cache_size) :
                 parse_address(sim, address).index = index
        /\ Len(SecondPass(sim)) = sim.num_blocks
        /\ \A k \in 1..Len(SecondPass(sim)) : SecondPass(sim)[k]

====
